---- MODULE Spec2Model ----
(***************************************************************************)
(* Model of the bevy_graph path searches (graph_functions/*.rs) over a     *)
(* vertex store.  A behaviour is one call of one search function on one    *)
(* store: Init draws the store, the endpoints and the function, and the    *)
(* actions are the call's prologue, the turns of its main loop and the     *)
(* visits of its neighbour loop.  The Graph resource (types.rs) and the    *)
(* StandardGraphVertex (graph_vertex/mod.rs) have specifications of their  *)
(* own, in which a behaviour is a sequence of calls on one value.          *)
(*                                                                         *)
(* Entities are the integers 1..n.  An Option<Entity> is a sequence of     *)
(* length 0 (None) or 1 (Some).  An f32 edge weight or distance is an      *)
(* integer.  A HashMap is a function on the set of its keys.               *)
(***************************************************************************)
EXTENDS Integers, Sequences, FiniteSets, TLC

VARIABLES
    alg,            \* the function being called
    store,          \* the entities the Query holds a vertex for
    nbrs,           \* entity -> its neighbour Vec of <<Entity, weight>>
    start_ent,      \* argument start_ent
    end_ent,        \* argument end_ent (final_vert for determine_path)
    goal,           \* the entities whose data satisfies end_determiner
    max_steps,      \* argument max_steps (within_steps; an Option in the multi-end search)
    max_ends,       \* argument max_ends: Option<usize>
    max_distance,   \* argument max_distance
    heur,           \* entity -> heuristic_determiner(data(entity), end_data)
    pc,             \* "call", "loop", "expand", "done"
    search_queue,   \* VecDeque (bfs), Vec of frames (dfs), PriorityQueue (others)
    path_previous,  \* HashMap<Entity, Option<Entity>>
    minimal_dist,   \* HashMap<Entity, PathWeight> (a_star: <<PathWeight, Heuristic>>)
    visited,        \* VisitedNodes of bfs and dfs
    sv_ent,         \* the vertex whose neighbours are being looped over
    sv_dist,        \* its distance
    nb_idx,         \* position of the neighbour loop in sv_ent's neighbour Vec
    expanded,       \* history: the vertices whose neighbour loop was entered
    sv_node,        \* the BreadthNode popped from the queue
    to_view,        \* within_steps: VecDeque of the vertices to view
    seen,           \* within_steps: HashSet of the entities met
    valid,          \* within_steps: Vec of (entity, step)
    current_step,   \* within_steps: the step of the vertices being viewed
    at_current_step, \* within_steps: how many of them are left
    found_paths,    \* multi-end searches: Vec of the paths found
    entered,        \* history: entity -> how many times it was put into the queue
    first_result,   \* the result of the call made before this one on the same store
    none_response,  \* argument: the policy for an edge of unknown weight
    vertices,       \* Graph.vertices: index -> Option<GraphVertexEntity>
    missing_indices, \* Graph.missing_indices
    free_indices,   \* Graph.free_indices
    vertex_index,   \* GraphVertex components: component -> its VertexIndex
    neighbours,     \* StandardGraphVertex.neighbours: Vec of <<Entity, weight>>
    args,           \* the arguments of the last Graph or StandardGraphVertex call
    result          \* the value the call returned

vars == <<alg, store, nbrs, start_ent, end_ent, goal, max_steps, max_ends,
          max_distance, heur, pc, search_queue, path_previous, minimal_dist,
          visited, sv_ent, sv_dist, nb_idx, expanded, sv_node, to_view, seen, valid,
          current_step, at_current_step, found_paths, entered, first_result,
          none_response,
          vertices, missing_indices, free_indices, vertex_index, neighbours, args,
          result>>

----------------------------------------------------------------------------
(* Bounds of the model *)

NumEnts == 3            \* entities of a store
MaxEdges == 4           \* edges of a store searched by bfs or dfs
MaxWeightedEdges == 2   \* edges of a store searched by edge weight
MaxWeight == 1          \* largest edge weight (the smallest is -1)
AStarNumEnts == 4       \* entities of a store searched with a heuristic
AStarMaxEdges == 4      \* its edges
AStarMaxWeight == 3     \* its largest edge weight (the smallest is 0)
MaxHeuristic == 2       \* largest value of the heuristic
MaxComputedEndEdges == 3 \* edges of a store searched for a computed end
MaxEnds == 1            \* largest max_ends given to a multi-end search
MaxSteps == 2           \* largest max_steps given
MaxDistance == 2        \* largest max_distance given (the smallest is -1)
MaxDijkstraEdges == 3   \* edges of a store searched by dijkstra_search alone
MaxDijkstraWeight == 1  \* largest weight of an edge of such a store
MaxLoopEdges == 2       \* edges of a store searched to the end by every function
MaxNeighbours == 4      \* edges a StandardGraphVertex is given
NumComponents == 2      \* GraphVertex components
MaxVertices == 3        \* vertices added to the Graph

Entities == 1..NumEnts
None == <<>>
Some(x) == <<x>>

----------------------------------------------------------------------------
(* Results *)

NoResult == [kind |-> "none", path |-> <<>>]
Ok(p) == [kind |-> "Ok", path |-> p]
Err(e) == [kind |-> e, path |-> <<>>]

----------------------------------------------------------------------------
(* helper.rs: determine_path *)

(* The loop of determine_path.  The path is returned with the error too, so that
   the number of predecessor links followed (Len(path) - 1) can be read off. *)
(* Variant of loop_found that reports a loop one element early *)
loop_found_at_limit(path, max_length) == Len(path) >= max_length

(* `if path.len() > max_length`: the check for a loop *)
loop_found(path, max_length) == Len(path) > max_length

RECURSIVE determine_path_loop(_, _, _, _)
determine_path_loop(map, to_follow, path, max_length) ==
    IF to_follow = None
    THEN [ok |-> TRUE, path |-> path]
    ELSE LET path2 == Append(path, to_follow[1])
         IN  IF to_follow[1] \notin DOMAIN map
             THEN [ok |-> FALSE, path |-> path2]
             ELSE IF loop_found(path2, max_length)
             THEN [ok |-> FALSE, path |-> path2]
             ELSE determine_path_loop(map, map[to_follow[1]], path2, max_length)

(* Variant of determine_path that leaves the final vertex out of the path *)
determine_path_without_final(map, final_vert) ==
    IF final_vert \notin DOMAIN map
    THEN [ok |-> FALSE, path |-> <<>>]
    ELSE determine_path_loop(map, map[final_vert], <<>>, Cardinality(DOMAIN map))

determine_path(map, final_vert) ==
    IF final_vert \notin DOMAIN map
    THEN [ok |-> FALSE, path |-> <<>>]
    ELSE determine_path_loop(map, map[final_vert], <<final_vert>>,
                             Cardinality(DOMAIN map))

(* `Ok(determine_path(..).unwrap())`: the unwrap panics on InvalidPathError. *)
unwrap_path(r) == IF r.ok THEN Ok(r.path) ELSE Err("InvalidPath")

----------------------------------------------------------------------------
(* Stores.  A store is drawn as a set of at most MaxEdges edges between the
   entities 1..n, each with a weight; the neighbour Vec of a vertex lists its
   edges by ascending target.  Only an entity of the store has a vertex, and
   so edges. *)

AllPairs(n) == (1..n) \X (1..n)

(* The entities that edges of E lead to from those of S *)
RECURSIVE ReachFrom(_, _)
ReachFrom(E, S) ==
    LET S2 == S \cup {e[2] : e \in {x \in E : x[1] \in S}}
    IN  IF S2 = S THEN S ELSE ReachFrom(E, S2)

(* The edge sets drawn: at most k edges, each out of a vertex of the store.  An
   edge out of a vertex that no path from entity 1 (the start) leads to is
   never read, and no such edge is drawn. *)
EdgeSets(n, present, k) ==
    {E \in SUBSET AllPairs(n) :
        /\ Cardinality(E) <= k
        /\ \A e \in E : e[1] \in present /\ e[1] \in ReachFrom(E, {1})}

NeighbourVec(n, E, wt, v) ==
    LET targets == SelectSeq([i \in 1..n |-> i], LAMBDA t : <<v, t>> \in E)
    IN  [i \in 1..Len(targets) |-> <<targets[i], wt[<<v, targets[i]>>]>>]

MakeNbrs(n, E, wt) == [v \in 1..n |-> NeighbourVec(n, E, wt, v)]

(* The stores of the model: every entity is in the store, or one is missing. *)
Stores(n) == {1..n} \cup {(1..n) \ {x} : x \in 1..n}

(* Edge sets of a store without cycles: every edge leads to a greater entity *)
ForwardEdgeSets(n, k) ==
    {E \in SUBSET {p \in AllPairs(n) : p[1] < p[2]} :
        /\ Cardinality(E) <= k
        /\ \A e \in E : e[1] \in ReachFrom(E, {1})}

(* h is consistent with respect to end: h(end) = 0 and h(u) <= w(u,v) + h(v) *)
Consistent(h, E, wt, end) ==
    /\ h[end] = 0
    /\ \A e \in E : h[e[1]] <= wt[e] + h[e[2]]

Weights == (0 - 1)..MaxWeight

(* GraphVertex::get_neighbours / get_neighbours_with_weight *)
get_neighbours(v) == [i \in 1..Len(nbrs[v]) |-> nbrs[v][i][1]]
get_neighbours_with_weight(v) == nbrs[v]

----------------------------------------------------------------------------
(* The part of the state a call leaves alone *)

Input == <<alg, store, nbrs, start_ent, end_ent, goal, heur, max_steps, max_ends,
           max_distance, none_response>>

(* The Graph resource, the GraphVertex components and the StandardGraphVertex
   under edit: no search reads or writes them *)
Resource == <<vertices, missing_indices, free_indices, vertex_index, neighbours, args>>

NoResource ==
    /\ vertices = <<>>
    /\ missing_indices = <<>>
    /\ free_indices = <<>>
    /\ vertex_index = <<>>
    /\ neighbours = <<>>
    /\ args = <<>>

(* The locals of the neighbourhood queries and of the computed-end and
   multi-end searches *)
Aux == <<sv_node, to_view, seen, valid, current_step, at_current_step, found_paths>>

Work == <<search_queue, path_previous, minimal_dist, visited, sv_ent, sv_dist,
          nb_idx, expanded>>

(* The locals before a call: nothing allocated yet *)
NoLocals ==
    /\ pc = "call"
    /\ search_queue = <<>>
    /\ path_previous = <<>>
    /\ minimal_dist = <<>>
    /\ visited = <<>>
    /\ sv_ent = start_ent
    /\ sv_dist = 0
    /\ nb_idx = 1
    /\ expanded = {}
    /\ sv_node = None
    /\ to_view = <<>>
    /\ seen = {}
    /\ valid = <<>>
    /\ current_step = 0
    /\ at_current_step = 0
    /\ found_paths = <<>>
    /\ entered = [e \in DOMAIN nbrs |-> 0]
    /\ result = NoResult

(* The state before a call of a search *)
Fresh == NoLocals /\ NoResource

(* How many times entity e is in the queue q of the search (to_view tv of
   within_steps) *)
Occurrences(q, tv, e) ==
    IF alg \in {"bfs"}
    THEN Cardinality({i \in DOMAIN q : q[i] = e})
    ELSE IF alg \in {"dfs", "dfs_multiple_end", "bfs_computed_end", "bfs_multiple_end"}
    THEN Cardinality({i \in DOMAIN q : q[i].ent = e})
    ELSE IF alg \in {"within_steps", "at_step"}
    THEN Cardinality({i \in DOMAIN tv : tv[i] = e})
    ELSE IF e \in DOMAIN q THEN 1 ELSE 0

(* The history of the queue: an entity that is in the queue more often after
   the step than before was put into it *)
CountEntered ==
    entered' = [e \in DOMAIN nbrs |->
                  LET before == Occurrences(search_queue, to_view, e)
                      after == Occurrences(search_queue', to_view', e)
                  IN  IF after > before THEN entered[e] + (after - before)
                      ELSE entered[e]]

(* `return r` *)
Return(r) ==
    /\ pc' = "done"
    /\ result' = r
    /\ UNCHANGED <<Input, first_result>>

(* A HashMap insert of a new key or over an old one *)
insert(map, k, v) == [x \in DOMAIN map \cup {k} |-> IF x = k THEN v ELSE map[x]]

(* The neighbour loop moves to the next neighbour; after the last one the main
   loop takes its next turn. *)
NextNeighbour ==
    IF nb_idx < Len(nbrs[sv_ent])
    THEN nb_idx' = nb_idx + 1 /\ pc' = "expand"
    ELSE nb_idx' = 1 /\ pc' = "loop"

(* The neighbour loop of vertex e starts (pc = "expand"), or is over at once when
   e has no neighbour. *)
EnterNeighbours(e) ==
    /\ expanded' = expanded \cup {e}
    /\ nb_idx' = 1
    /\ pc' = IF Len(nbrs[e]) = 0 THEN "loop" ELSE "expand"

----------------------------------------------------------------------------
(* priority_queue::PriorityQueue<Entity, Reverse<PathWeight>>: a function from
   the queued entities to their PathWeight; pop takes an entity of least
   PathWeight, any of them when several are least. *)

pq_push(q, item, prio) == insert(q, item, prio)
(* Variant of change_priority that inserts an item the queue does not hold *)
pq_change_priority_or_push(q, item, prio) == insert(q, item, prio)

(* PriorityQueue::change_priority: nothing happens when the item is not queued *)
pq_change_priority(q, item, prio) ==
    IF item \in DOMAIN q THEN [q EXCEPT ![item] = prio] ELSE q
(* Variant of pop without the Reverse: an entity of greatest PathWeight *)
pq_pop_greatest(q) == {e \in DOMAIN q : \A f \in DOMAIN q : q[e] >= q[f]}

pq_pop_candidates(q) == {e \in DOMAIN q : \A f \in DOMAIN q : q[e] <= q[f]}
pq_remove(q, e) == [x \in DOMAIN q \ {e} |-> q[x]]

----------------------------------------------------------------------------
(* dijkstra.rs: dijkstra_search and dijkstra_computed_end *)

(* `if edge_weight < 0.0` *)
negative_weight(edge_weight) == edge_weight < 0

(* `if total_dist > *dist {continue;}` *)
visited_closer(total_dist, dist) == total_dist > dist

(* `end_determiner(sv_data)` *)
end_determiner(e) == e \in goal

dijkstra_search_call ==
    /\ pc = "call"
    /\ alg = "dijkstra_search"
    /\ IF start_ent \notin store \/ end_ent \notin store
       THEN Return(Err("InvalidEntity")) /\ UNCHANGED Work
       ELSE /\ path_previous' = insert(<<>>, start_ent, None)
            /\ minimal_dist' = insert(<<>>, start_ent, 0)
            /\ search_queue' = pq_push(<<>>, start_ent, 0)
            /\ pc' = "loop"
            /\ UNCHANGED <<Input, first_result, result, visited, sv_ent, sv_dist,
                           nb_idx, expanded>>
    /\ UNCHANGED Aux
    /\ UNCHANGED Resource
    /\ CountEntered

dijkstra_search_pop ==
    /\ pc = "loop"
    /\ alg = "dijkstra_search"
    /\ IF DOMAIN search_queue = {}
       THEN Return(Err("NoPath")) /\ UNCHANGED Work
       ELSE \E e \in pq_pop_candidates(search_queue) :
            /\ search_queue' = pq_remove(search_queue, e)
            /\ sv_ent' = e
            /\ sv_dist' = search_queue[e]
            /\ UNCHANGED <<path_previous, minimal_dist, visited>>
            /\ IF e = end_ent
               THEN /\ Return(unwrap_path(determine_path(path_previous, e)))
                    /\ UNCHANGED <<nb_idx, expanded>>
               ELSE IF e \notin store
               THEN UNCHANGED <<Input, first_result, result, pc, nb_idx, expanded>>
               ELSE /\ EnterNeighbours(e)
                    /\ UNCHANGED <<Input, first_result, result>>
    /\ UNCHANGED Aux
    /\ UNCHANGED Resource
    /\ CountEntered

dijkstra_computed_end_call ==
    /\ pc = "call"
    /\ alg = "dijkstra_computed_end"
    /\ IF start_ent \notin store
       THEN Return(Err("InvalidEntity")) /\ UNCHANGED Work
       ELSE /\ path_previous' = insert(<<>>, start_ent, None)
            /\ minimal_dist' = insert(<<>>, start_ent, 0)
            /\ search_queue' = pq_push(<<>>, start_ent, 0)
            /\ pc' = "loop"
            /\ UNCHANGED <<Input, first_result, result, visited, sv_ent, sv_dist,
                           nb_idx, expanded>>
    /\ UNCHANGED Aux
    /\ UNCHANGED Resource
    /\ CountEntered

dijkstra_computed_end_pop ==
    /\ pc = "loop"
    /\ alg = "dijkstra_computed_end"
    /\ IF DOMAIN search_queue = {}
       THEN Return(Err("NoPath")) /\ UNCHANGED Work
       ELSE \E e \in pq_pop_candidates(search_queue) :
            /\ search_queue' = pq_remove(search_queue, e)
            /\ sv_ent' = e
            /\ sv_dist' = search_queue[e]
            /\ UNCHANGED <<path_previous, minimal_dist, visited>>
            /\ IF e \notin store
               THEN UNCHANGED <<Input, first_result, result, pc, nb_idx, expanded>>
               ELSE IF end_determiner(e)
               THEN /\ Return(unwrap_path(determine_path(path_previous, e)))
                    /\ UNCHANGED <<nb_idx, expanded>>
               ELSE /\ EnterNeighbours(e)
                    /\ UNCHANGED <<Input, first_result, result>>
    /\ UNCHANGED Aux
    /\ UNCHANGED Resource
    /\ CountEntered

(* One turn of the neighbour loop; the same text in both functions *)
dijkstra_relax ==
    /\ pc = "expand"
    /\ alg \in {"dijkstra_search", "dijkstra_computed_end"}
    /\ LET neighbour_ent == get_neighbours_with_weight(sv_ent)[nb_idx][1]
           edge_weight == get_neighbours_with_weight(sv_ent)[nb_idx][2]
           total_dist == sv_dist + edge_weight
       IN  IF negative_weight(edge_weight)
           THEN Return(Err("NegativeWeight")) /\ UNCHANGED Work
           ELSE /\ UNCHANGED <<Input, first_result, result, visited, sv_ent,
                               sv_dist, expanded>>
                /\ NextNeighbour
                /\ IF neighbour_ent \in DOMAIN minimal_dist
                   THEN IF visited_closer(total_dist, minimal_dist[neighbour_ent])
                        THEN UNCHANGED <<path_previous, minimal_dist, search_queue>>
                        ELSE /\ path_previous' =
                                  [path_previous EXCEPT ![neighbour_ent] = Some(sv_ent)]
                             /\ minimal_dist' =
                                  [minimal_dist EXCEPT ![neighbour_ent] = total_dist]
                             /\ search_queue' =
                                  pq_change_priority(search_queue, neighbour_ent, total_dist)
                   ELSE /\ path_previous' = insert(path_previous, neighbour_ent, Some(sv_ent))
                        /\ minimal_dist' = insert(minimal_dist, neighbour_ent, total_dist)
                        /\ search_queue' = pq_push(search_queue, neighbour_ent, total_dist)
    /\ UNCHANGED Aux
    /\ UNCHANGED Resource
    /\ CountEntered

----------------------------------------------------------------------------
(* astar.rs: a_star_search.  minimal_dist maps an entity to
   <<PathWeight, Heuristic>>. *)

(* `heuristic_determiner(&sv_data, &end_data)` at the first discovery of a
   neighbour of sv *)
new_heuristic(sv, neighbour_ent) == heur[sv]

a_star_search_call ==
    /\ pc = "call"
    /\ alg = "a_star_search"
    /\ IF start_ent \notin store \/ end_ent \notin store
       THEN Return(Err("InvalidEntity")) /\ UNCHANGED Work
       ELSE /\ path_previous' = insert(<<>>, start_ent, None)
            /\ minimal_dist' = insert(<<>>, start_ent, <<0, 0>>)
            /\ search_queue' = pq_push(<<>>, start_ent, 0)
            /\ pc' = "loop"
            /\ UNCHANGED <<Input, first_result, result, visited, sv_ent, sv_dist,
                           nb_idx, expanded>>
    /\ UNCHANGED Aux
    /\ UNCHANGED Resource
    /\ CountEntered

a_star_search_pop ==
    /\ pc = "loop"
    /\ alg = "a_star_search"
    /\ IF DOMAIN search_queue = {}
       THEN Return(Err("NoPath")) /\ UNCHANGED Work
       ELSE \E e \in pq_pop_candidates(search_queue) :
            /\ search_queue' = pq_remove(search_queue, e)
            /\ sv_ent' = e
            /\ UNCHANGED <<path_previous, minimal_dist, visited>>
            /\ IF e = end_ent
               THEN /\ Return(unwrap_path(determine_path(path_previous, e)))
                    /\ UNCHANGED <<sv_dist, nb_idx, expanded>>
               ELSE IF e \notin store
               THEN UNCHANGED <<Input, first_result, result, pc, sv_dist, nb_idx,
                                expanded>>
               ELSE /\ sv_dist' = minimal_dist[e][1]
                    /\ EnterNeighbours(e)
                    /\ UNCHANGED <<Input, first_result, result>>
    /\ UNCHANGED Aux
    /\ UNCHANGED Resource
    /\ CountEntered

a_star_search_relax ==
    /\ pc = "expand"
    /\ alg = "a_star_search"
    /\ LET neighbour_ent == get_neighbours_with_weight(sv_ent)[nb_idx][1]
           edge_weight == get_neighbours_with_weight(sv_ent)[nb_idx][2]
           total_dist == sv_dist + edge_weight
       IN  /\ UNCHANGED <<Input, first_result, result, visited, sv_ent, sv_dist,
                          expanded>>
           /\ NextNeighbour
           /\ IF neighbour_ent \in DOMAIN minimal_dist
              THEN IF visited_closer(total_dist, minimal_dist[neighbour_ent][1])
                   THEN UNCHANGED <<path_previous, minimal_dist, search_queue>>
                   ELSE /\ path_previous' =
                             [path_previous EXCEPT ![neighbour_ent] = Some(sv_ent)]
                        /\ search_queue' =
                             pq_change_priority(search_queue, neighbour_ent,
                                 total_dist + minimal_dist[neighbour_ent][2])
                        /\ minimal_dist' =
                             [minimal_dist EXCEPT ![neighbour_ent][1] = total_dist]
              ELSE LET heuristic == new_heuristic(sv_ent, neighbour_ent)
                   IN  /\ path_previous' =
                             insert(path_previous, neighbour_ent, Some(sv_ent))
                       /\ search_queue' =
                             pq_push(search_queue, neighbour_ent, total_dist + heuristic)
                       /\ minimal_dist' =
                             insert(minimal_dist, neighbour_ent, <<total_dist, heuristic>>)
    /\ UNCHANGED Aux
    /\ UNCHANGED Resource
    /\ CountEntered

----------------------------------------------------------------------------
(* VisitedNodes and GraphPath, as bfs.rs and dfs.rs use them: the visited
   records keyed by entity, each with its predecessor, step and weight; a
   GraphPath<()> is the sequence of its entities. *)

new_from_start(start) == insert(<<>>, start, [prev |-> None, step |-> 0, weight |-> 0])
is_visited(v, ent) == ent \in DOMAIN v
visited_insert(v, ent, prev, step, weight) ==
    insert(v, ent, [prev |-> Some(prev), step |-> step, weight |-> weight])
visited_determine_path(v, final_vert) ==
    determine_path([k \in DOMAIN v |-> v[k].prev], final_vert)
single(ent) == <<ent>>

----------------------------------------------------------------------------
(* bfs.rs: bfs *)

(* `if neighbour_ent == end_ent` *)
is_end(neighbour_ent) == neighbour_ent = end_ent

(* Variant of bfs_record that records the start of the search as predecessor *)
bfs_record_start(v, neighbour_ent, sv) ==
    visited_insert(v, neighbour_ent, start_ent, 0, 0)

(* `visited.insert(neighbour_ent, sv_ent, 0, 0.0)` *)
bfs_record(v, neighbour_ent, sv) == visited_insert(v, neighbour_ent, sv, 0, 0)

bfs_call ==
    /\ pc = "call"
    /\ alg = "bfs"
    /\ IF start_ent = end_ent
       THEN Return(Ok(single(start_ent))) /\ UNCHANGED Work
       ELSE /\ search_queue' = <<start_ent>>
            /\ visited' = new_from_start(start_ent)
            /\ pc' = "loop"
            /\ UNCHANGED <<Input, first_result, result, path_previous, minimal_dist,
                           sv_ent, sv_dist, nb_idx, expanded>>
    /\ UNCHANGED Aux
    /\ UNCHANGED Resource
    /\ CountEntered

bfs_pop ==
    /\ pc = "loop"
    /\ alg = "bfs"
    /\ IF search_queue = <<>>
       THEN Return(Err("NoPath")) /\ UNCHANGED Work
       ELSE /\ search_queue' = Tail(search_queue)
            /\ sv_ent' = Head(search_queue)
            /\ UNCHANGED <<Input, first_result, result, path_previous, minimal_dist,
                           visited, sv_dist>>
            /\ IF Head(search_queue) \notin store
               THEN UNCHANGED <<pc, nb_idx, expanded>>
               ELSE EnterNeighbours(Head(search_queue))
    /\ UNCHANGED Aux
    /\ UNCHANGED Resource
    /\ CountEntered

bfs_visit ==
    /\ pc = "expand"
    /\ alg = "bfs"
    /\ LET neighbour_ent == get_neighbours(sv_ent)[nb_idx]
       IN  IF is_visited(visited, neighbour_ent)
           THEN /\ NextNeighbour
                /\ UNCHANGED <<Input, first_result, result, search_queue,
                               path_previous, minimal_dist, visited, sv_ent, sv_dist,
                               expanded>>
           ELSE /\ visited' = bfs_record(visited, neighbour_ent, sv_ent)
                /\ UNCHANGED <<path_previous, minimal_dist, sv_ent, sv_dist, expanded>>
                /\ IF is_end(neighbour_ent)
                   THEN /\ Return(unwrap_path(
                                visited_determine_path(visited', neighbour_ent)))
                        /\ UNCHANGED <<search_queue, nb_idx>>
                   ELSE /\ search_queue' = Append(search_queue, neighbour_ent)
                        /\ NextNeighbour
                        /\ UNCHANGED <<Input, first_result, result>>
    /\ UNCHANGED Aux
    /\ UNCHANGED Resource
    /\ CountEntered

----------------------------------------------------------------------------
(* dfs.rs: dfs.  search_queue is the Vec of DepthNode frames, the top last. *)

DepthNode(ent) == [ent |-> ent, neighbours_visited |-> 0]

(* Variant of get_next_neighbour that reads the cursor after advancing it *)
get_next_neighbour_after(node) ==
    IF node.neighbours_visited + 2 <= Len(get_neighbours(node.ent))
    THEN Some(get_neighbours(node.ent)[node.neighbours_visited + 2])
    ELSE None

(* DepthNode::get_next_neighbour: the neighbour at the cursor, if any *)
get_next_neighbour(node) ==
    IF node.neighbours_visited + 1 <= Len(get_neighbours(node.ent))
    THEN Some(get_neighbours(node.ent)[node.neighbours_visited + 1])
    ELSE None

(* Variant of dfs_record that records the neighbour as its own predecessor *)
dfs_record_self(v, neighbour_ent, previous) ==
    visited_insert(v, neighbour_ent, neighbour_ent, 0, 0)

(* `visited.insert(neighbour_ent, previous, 0, 0.0)` *)
dfs_record(v, neighbour_ent, previous) == visited_insert(v, neighbour_ent, previous, 0, 0)

dfs_call ==
    /\ pc = "call"
    /\ alg = "dfs"
    /\ IF start_ent \notin store
       THEN Return(Err("InvalidEntity")) /\ UNCHANGED Work
       ELSE IF start_ent = end_ent
       THEN Return(Ok(single(start_ent))) /\ UNCHANGED Work
       ELSE /\ search_queue' = <<DepthNode(start_ent)>>
            /\ visited' = new_from_start(start_ent)
            /\ pc' = "loop"
            /\ UNCHANGED <<Input, first_result, result, path_previous, minimal_dist,
                           sv_ent, sv_dist, nb_idx, expanded>>
    /\ UNCHANGED Aux
    /\ UNCHANGED Resource
    /\ CountEntered

dfs_step ==
    /\ pc = "loop"
    /\ alg = "dfs"
    /\ IF search_queue = <<>>
       THEN Return(Err("NoPath")) /\ UNCHANGED Work
       ELSE LET top == Len(search_queue)
                node == search_queue[top]
                popped == SubSeq(search_queue, 1, top - 1)
                next == get_next_neighbour(node)
                advanced == [node EXCEPT !.neighbours_visited = @ + 1]
                pushed_back == Append(popped, advanced)
            IN  /\ sv_ent' = node.ent
                /\ UNCHANGED <<path_previous, minimal_dist, sv_dist, nb_idx, expanded>>
                /\ IF next = None
                   THEN /\ search_queue' = popped
                        /\ UNCHANGED <<Input, first_result, result, pc, visited>>
                   ELSE IF is_visited(visited, next[1])
                   THEN /\ search_queue' = pushed_back
                        /\ UNCHANGED <<Input, first_result, result, pc, visited>>
                   ELSE /\ visited' = dfs_record(visited, next[1], node.ent)
                        /\ IF is_end(next[1])
                           THEN /\ Return(unwrap_path(
                                        visited_determine_path(visited', next[1])))
                                /\ search_queue' = pushed_back
                           ELSE /\ search_queue' =
                                     IF next[1] \in store
                                     THEN Append(pushed_back, DepthNode(next[1]))
                                     ELSE pushed_back
                                /\ UNCHANGED <<Input, first_result, result, pc>>
    /\ UNCHANGED Aux
    /\ UNCHANGED Resource
    /\ CountEntered

----------------------------------------------------------------------------
(* determine_path called on its own, on any predecessor map.  The path walked
   is kept with the error too. *)

determine_path_call ==
    /\ pc = "call"
    /\ alg = "determine_path"
    /\ LET r == determine_path(path_previous, end_ent)
       IN  /\ result' = [kind |-> IF r.ok THEN "Ok" ELSE "InvalidPath", path |-> r.path]
           /\ pc' = "done"
    /\ UNCHANGED <<Input, first_result, Work>>
    /\ UNCHANGED Aux
    /\ UNCHANGED Resource
    /\ CountEntered

----------------------------------------------------------------------------
(* A caller that, once dijkstra_search has returned, calls a_star_search with
   the same arguments on the same store. *)

second_call ==
    /\ pc = "done"
    /\ alg = "dijkstra_search"
    /\ alg' = "a_star_search"
    /\ first_result' = result
    /\ result' = NoResult
    /\ pc' = "call"
    /\ search_queue' = <<>>
    /\ path_previous' = <<>>
    /\ minimal_dist' = <<>>
    /\ sv_ent' = start_ent
    /\ sv_dist' = 0
    /\ nb_idx' = 1
    /\ expanded' = {}
    /\ UNCHANGED <<store, nbrs, start_ent, end_ent, goal, heur, max_steps, max_ends,
                   max_distance, none_response, visited>>
    /\ UNCHANGED Aux
    /\ UNCHANGED Resource
    /\ entered' = [e \in DOMAIN nbrs |-> 0]

----------------------------------------------------------------------------
(* bfs.rs: bfs_computed_end and the multi-end search (named dfs_multiple_end in
   bfs.rs; bfs_multiple_end here).  search_queue is the VecDeque of BreadthNode;
   the `vertex` of a node is the entity whose vertex the reference points to. *)

BreadthNode(ent, vertex, step) == [ent |-> ent, vertex |-> vertex, step |-> step]

(* `query.get(start_ent)` in the neighbour loop: the entity that is looked up
   for the neighbour's vertex and data *)
neighbour_lookup(neighbour_ent) == start_ent

(* `if node.step == max_steps`, max_steps being max_steps.unwrap_or(u64::MAX),
   which no step of a search on these stores equals *)
max_steps_reached(step) == max_steps # None /\ step = max_steps[1]

(* `if found_paths.len() == max_paths`, max_paths being
   max_ends.unwrap_or(usize::MAX) *)
max_paths_reached(len) == max_ends # None /\ len = max_ends[1]

(* What the searches of bfs.rs on BreadthNode leave alone *)
BreadthFrame == <<Input, first_result, path_previous, minimal_dist, sv_ent,
                  sv_dist, to_view, seen, valid, current_step, at_current_step>>

(* The neighbour loop over node.vertex.get_neighbours() moves on *)
NodeNextNeighbour ==
    IF nb_idx < Len(nbrs[sv_node.vertex])
    THEN nb_idx' = nb_idx + 1 /\ pc' = "expand"
    ELSE nb_idx' = 1 /\ pc' = "loop"

bfs_computed_end_call ==
    /\ pc = "call"
    /\ alg = "bfs_computed_end"
    /\ UNCHANGED <<BreadthFrame, sv_node, nb_idx, expanded, found_paths>>
    /\ IF start_ent \notin store
       THEN Return(Err("InvalidEntity")) /\ UNCHANGED <<search_queue, visited>>
       ELSE IF end_determiner(start_ent)
       THEN Return(Ok(single(start_ent))) /\ UNCHANGED <<search_queue, visited>>
       ELSE /\ search_queue' = <<BreadthNode(start_ent, start_ent, 0)>>
            /\ visited' = new_from_start(start_ent)
            /\ pc' = "loop"
            /\ UNCHANGED result
    /\ UNCHANGED Resource
    /\ CountEntered

bfs_computed_end_pop ==
    /\ pc = "loop"
    /\ alg = "bfs_computed_end"
    /\ UNCHANGED <<BreadthFrame, visited, found_paths>>
    /\ IF search_queue = <<>>
       THEN Return(Err("NoPath")) /\ UNCHANGED <<search_queue, sv_node, nb_idx, expanded>>
       ELSE /\ sv_node' = Head(search_queue)
            /\ search_queue' = Tail(search_queue)
            /\ expanded' = expanded \cup {Head(search_queue).vertex}
            /\ nb_idx' = 1
            /\ pc' = IF Len(nbrs[Head(search_queue).vertex]) = 0 THEN "loop" ELSE "expand"
            /\ UNCHANGED result
    /\ UNCHANGED Resource
    /\ CountEntered

bfs_computed_end_visit ==
    /\ pc = "expand"
    /\ alg = "bfs_computed_end"
    /\ UNCHANGED <<BreadthFrame, sv_node, expanded, found_paths>>
    /\ LET neighbour_ent == get_neighbours(sv_node.vertex)[nb_idx]
           looked_up == neighbour_lookup(neighbour_ent)
           visited2 == visited_insert(visited, neighbour_ent, sv_node.ent,
                                      sv_node.step + 1, 0)
       IN  IF is_visited(visited, neighbour_ent)
           THEN NodeNextNeighbour /\ UNCHANGED <<visited, search_queue, result>>
           ELSE /\ visited' = visited2
                /\ IF looked_up \notin store
                   THEN NodeNextNeighbour /\ UNCHANGED <<search_queue, result>>
                   ELSE IF end_determiner(looked_up)
                   THEN /\ pc' = "done"
                        /\ result' = unwrap_path(visited_determine_path(visited2, neighbour_ent))
                        /\ UNCHANGED <<search_queue, nb_idx>>
                   ELSE /\ search_queue' = Append(search_queue,
                               BreadthNode(neighbour_ent, looked_up, sv_node.step + 1))
                        /\ NodeNextNeighbour
                        /\ UNCHANGED result
    /\ UNCHANGED Resource
    /\ CountEntered

bfs_multiple_end_call ==
    /\ pc = "call"
    /\ alg = "bfs_multiple_end"
    /\ UNCHANGED <<BreadthFrame, sv_node, nb_idx, expanded>>
    /\ IF start_ent \notin store
       THEN Return(Err("InvalidEntity")) /\ UNCHANGED <<search_queue, visited, found_paths>>
       ELSE /\ found_paths' = IF end_determiner(start_ent)
                              THEN <<single(start_ent)>> ELSE <<>>
            /\ search_queue' = <<BreadthNode(start_ent, start_ent, 0)>>
            /\ visited' = new_from_start(start_ent)
            /\ pc' = "loop"
            /\ UNCHANGED result
    /\ UNCHANGED Resource
    /\ CountEntered

bfs_multiple_end_pop ==
    /\ pc = "loop"
    /\ alg = "bfs_multiple_end"
    /\ UNCHANGED <<BreadthFrame, visited, found_paths>>
    /\ IF search_queue = <<>>
       THEN Return(Ok(found_paths)) /\ UNCHANGED <<search_queue, sv_node, nb_idx, expanded>>
       ELSE /\ sv_node' = Head(search_queue)
            /\ search_queue' = Tail(search_queue)
            /\ nb_idx' = 1
            /\ UNCHANGED result
            /\ IF max_steps_reached(Head(search_queue).step)
               THEN UNCHANGED <<pc, expanded>>
               ELSE /\ expanded' = expanded \cup {Head(search_queue).vertex}
                    /\ pc' = IF Len(nbrs[Head(search_queue).vertex]) = 0
                             THEN "loop" ELSE "expand"
    /\ UNCHANGED Resource
    /\ CountEntered

bfs_multiple_end_visit ==
    /\ pc = "expand"
    /\ alg = "bfs_multiple_end"
    /\ UNCHANGED <<BreadthFrame, sv_node, expanded>>
    /\ LET neighbour_ent == get_neighbours(sv_node.vertex)[nb_idx]
           looked_up == neighbour_lookup(neighbour_ent)
           visited2 == visited_insert(visited, neighbour_ent, sv_node.ent,
                                      sv_node.step + 1, 0)
           found == visited_determine_path(visited2, neighbour_ent)
       IN  IF max_paths_reached(Len(found_paths))
           THEN /\ Return(Ok(found_paths))
                /\ UNCHANGED <<visited, search_queue, found_paths, nb_idx>>
           ELSE IF is_visited(visited, neighbour_ent)
           THEN NodeNextNeighbour /\ UNCHANGED <<visited, search_queue, found_paths, result>>
           ELSE /\ visited' = visited2
                /\ IF looked_up \notin store
                   THEN NodeNextNeighbour /\ UNCHANGED <<search_queue, found_paths, result>>
                   ELSE IF end_determiner(looked_up) /\ ~found.ok
                   THEN /\ Return(Err("InvalidPath"))
                        /\ UNCHANGED <<search_queue, found_paths, nb_idx>>
                   ELSE /\ found_paths' = IF end_determiner(looked_up)
                                          THEN Append(found_paths, found.path)
                                          ELSE found_paths
                        /\ search_queue' = Append(search_queue,
                               BreadthNode(neighbour_ent, looked_up, sv_node.step + 1))
                        /\ NodeNextNeighbour
                        /\ UNCHANGED result
    /\ UNCHANGED Resource
    /\ CountEntered

----------------------------------------------------------------------------
(* dfs.rs: dfs_multiple_end *)

(* What dfs_multiple_end leaves alone *)
DepthFrame == <<Input, first_result, path_previous, minimal_dist, sv_dist, nb_idx,
                expanded, sv_node, to_view, seen, valid, current_step,
                at_current_step>>

dfs_multiple_end_call ==
    /\ pc = "call"
    /\ alg = "dfs_multiple_end"
    /\ UNCHANGED <<DepthFrame, sv_ent>>
    /\ IF start_ent \notin store
       THEN Return(Err("InvalidEntity")) /\ UNCHANGED <<search_queue, visited, found_paths>>
       ELSE /\ found_paths' = IF end_determiner(start_ent)
                              THEN <<single(start_ent)>> ELSE <<>>
            /\ search_queue' = <<DepthNode(start_ent)>>
            /\ visited' = new_from_start(start_ent)
            /\ pc' = "loop"
            /\ UNCHANGED result
    /\ UNCHANGED Resource
    /\ CountEntered

dfs_multiple_end_step ==
    /\ pc = "loop"
    /\ alg = "dfs_multiple_end"
    /\ UNCHANGED DepthFrame
    /\ IF search_queue = <<>>
       THEN Return(Ok(found_paths)) /\ UNCHANGED <<search_queue, visited, found_paths, sv_ent>>
       ELSE LET top == Len(search_queue)
                node == search_queue[top]
                popped == SubSeq(search_queue, 1, top - 1)
                next == get_next_neighbour(node)
                advanced == [node EXCEPT !.neighbours_visited = @ + 1]
                pushed_back == Append(popped, advanced)
                visited2 == dfs_record(visited, next[1], node.ent)
                found == visited_determine_path(visited2, next[1])
            IN  /\ sv_ent' = node.ent
                /\ IF max_paths_reached(Len(found_paths))
                   THEN /\ Return(Ok(found_paths))
                        /\ search_queue' = popped
                        /\ UNCHANGED <<visited, found_paths>>
                   ELSE IF next = None
                   THEN /\ search_queue' = popped
                        /\ UNCHANGED <<result, pc, visited, found_paths>>
                   ELSE IF is_visited(visited, next[1]) \/ next[1] \notin store
                   THEN /\ search_queue' = pushed_back
                        /\ UNCHANGED <<result, pc, visited, found_paths>>
                   ELSE /\ visited' = visited2
                        /\ IF end_determiner(next[1]) /\ ~found.ok
                           THEN /\ Return(Err("InvalidPath"))
                                /\ search_queue' = pushed_back
                                /\ UNCHANGED found_paths
                           ELSE /\ found_paths' = IF end_determiner(next[1])
                                                  THEN Append(found_paths, found.path)
                                                  ELSE found_paths
                                /\ search_queue' = Append(pushed_back, DepthNode(next[1]))
                                /\ UNCHANGED <<result, pc>>
    /\ UNCHANGED Resource
    /\ CountEntered

----------------------------------------------------------------------------
(* neighbourhood.rs: within_steps, and at_step, which calls it.  to_view holds
   the entities whose vertex is referenced. *)

(* `query.get(neighbour)`: the entity looked up for a neighbour *)
view_lookup(neighbour) == neighbour

(* Variant of far_enough that stops one step later *)
far_enough_late(step) == step = max_steps + 1

(* `if current_step == max_steps {break;}` *)
far_enough(step) == step = max_steps

(* What within_steps leaves alone *)
StepsFrame == <<Input, first_result, search_queue, path_previous, minimal_dist,
                visited, sv_dist, expanded, sv_node, found_paths>>

(* within_steps returns: to its caller at_step when at_step called it *)
StepsReturn(r) ==
    /\ result' = r
    /\ pc' = IF alg = "at_step" /\ r.kind = "Ok" THEN "returned" ELSE "done"

within_steps_call ==
    /\ pc = "call"
    /\ alg \in {"within_steps", "at_step"}
    /\ UNCHANGED <<StepsFrame, sv_ent, nb_idx>>
    /\ IF start_ent \notin store
       THEN /\ StepsReturn(Err("InvalidEntity"))
            /\ UNCHANGED <<to_view, seen, valid, current_step, at_current_step>>
       ELSE /\ to_view' = <<start_ent>>
            /\ seen' = {start_ent}
            /\ valid' = <<<<start_ent, 0>>>>
            /\ current_step' = 0
            /\ at_current_step' = 1
            /\ pc' = "loop"
            /\ UNCHANGED result
    /\ UNCHANGED Resource
    /\ CountEntered

within_steps_pop ==
    /\ pc = "loop"
    /\ alg \in {"within_steps", "at_step"}
    /\ UNCHANGED <<StepsFrame, seen, valid, current_step>>
    /\ IF to_view = <<>>
       THEN /\ StepsReturn(Ok(valid))
            /\ UNCHANGED <<to_view, sv_ent, nb_idx, at_current_step>>
       ELSE /\ sv_ent' = Head(to_view)
            /\ to_view' = Tail(to_view)
            /\ at_current_step' = at_current_step - 1
            /\ nb_idx' = 1
            /\ pc' = IF Len(nbrs[Head(to_view)]) = 0 THEN "layer" ELSE "expand"
            /\ UNCHANGED result
    /\ UNCHANGED Resource
    /\ CountEntered

within_steps_visit ==
    /\ pc = "expand"
    /\ alg \in {"within_steps", "at_step"}
    /\ UNCHANGED <<StepsFrame, sv_ent, current_step, at_current_step, result>>
    /\ LET neighbour == get_neighbours(sv_ent)[nb_idx]
       IN  /\ seen' = seen \cup {neighbour}
           /\ IF neighbour \notin seen /\ view_lookup(neighbour) \in store
              THEN /\ to_view' = Append(to_view, view_lookup(neighbour))
                   /\ valid' = Append(valid, <<neighbour, current_step + 1>>)
              ELSE UNCHANGED <<to_view, valid>>
    /\ IF nb_idx < Len(nbrs[sv_ent])
       THEN nb_idx' = nb_idx + 1 /\ pc' = "expand"
       ELSE nb_idx' = 1 /\ pc' = "layer"
    /\ UNCHANGED Resource
    /\ CountEntered

within_steps_layer ==
    /\ pc = "layer"
    /\ alg \in {"within_steps", "at_step"}
    /\ UNCHANGED <<StepsFrame, sv_ent, nb_idx, to_view, seen, valid>>
    /\ IF at_current_step = 0
       THEN /\ current_step' = current_step + 1
            /\ IF far_enough(current_step + 1)
               THEN StepsReturn(Ok(valid)) /\ UNCHANGED at_current_step
               ELSE /\ at_current_step' = Len(to_view)
                    /\ pc' = "loop"
                    /\ UNCHANGED result
       ELSE /\ pc' = "loop"
            /\ UNCHANGED <<current_step, at_current_step, result>>
    /\ UNCHANGED Resource
    /\ CountEntered

(* Variant of filter_map_step that keeps the nearer vertices too *)
filter_map_upto(pairs, at) ==
    LET kept == SelectSeq(pairs, LAMBDA pr : pr[2] <= at)
    IN  [i \in 1..Len(kept) |-> kept[i][1]]

(* `.filter_map(|(ent, step)| if step == at_step {Some(ent)} else {None})` *)
filter_map_step(pairs, at) ==
    LET kept == SelectSeq(pairs, LAMBDA pr : pr[2] = at)
    IN  [i \in 1..Len(kept) |-> kept[i][1]]

at_step_collect ==
    /\ pc = "returned"
    /\ alg = "at_step"
    /\ result' = Ok(filter_map_step(result.path, max_steps))
    /\ pc' = "done"
    /\ UNCHANGED <<StepsFrame, sv_ent, nb_idx, to_view, seen, valid, current_step,
                   at_current_step>>
    /\ UNCHANGED Resource
    /\ CountEntered

----------------------------------------------------------------------------
(* neighbourhood.rs: within_distance *)

(* `if total_dist > (PathWeight{weight: max_distance}) {continue;}` *)
too_far(total_dist) == total_dist > max_distance

(* The orders in which a HashMap may hand out its keys *)
Orderings(S) ==
    {f \in [1..Cardinality(S) -> S] : \A i, j \in 1..Cardinality(S) : i # j => f[i] # f[j]}

(* `minimal_dist.into_iter().map(|(ent, pathweight)| (ent, pathweight.weight)).collect()` *)
collect_pairs(map, order) == [i \in 1..Len(order) |-> <<order[i], map[order[i]]>>]

(* What within_distance leaves alone *)
DistanceFrame == <<Input, first_result, path_previous, visited, Aux>>

within_distance_call ==
    /\ pc = "call"
    /\ alg = "within_distance"
    /\ UNCHANGED <<DistanceFrame, sv_ent, sv_dist, nb_idx, expanded>>
    /\ IF start_ent \notin store
       THEN Return(Err("InvalidEntity")) /\ UNCHANGED <<minimal_dist, search_queue>>
       ELSE /\ minimal_dist' = insert(<<>>, start_ent, 0)
            /\ search_queue' = pq_push(<<>>, start_ent, 0)
            /\ pc' = "loop"
            /\ UNCHANGED result
    /\ UNCHANGED Resource
    /\ CountEntered

within_distance_pop ==
    /\ pc = "loop"
    /\ alg = "within_distance"
    /\ UNCHANGED <<DistanceFrame, minimal_dist>>
    /\ IF DOMAIN search_queue = {}
       THEN /\ \E order \in Orderings(DOMAIN minimal_dist) :
                   Return(Ok(collect_pairs(minimal_dist, order)))
            /\ UNCHANGED <<search_queue, sv_ent, sv_dist, nb_idx, expanded>>
       ELSE \E e \in pq_pop_candidates(search_queue) :
            /\ search_queue' = pq_remove(search_queue, e)
            /\ sv_ent' = e
            /\ sv_dist' = search_queue[e]
            /\ UNCHANGED result
            /\ IF e \notin store
               THEN UNCHANGED <<pc, nb_idx, expanded>>
               ELSE EnterNeighbours(e)
    /\ UNCHANGED Resource
    /\ CountEntered

within_distance_relax ==
    /\ pc = "expand"
    /\ alg = "within_distance"
    /\ UNCHANGED <<DistanceFrame, sv_ent, sv_dist, expanded>>
    /\ LET neighbour_ent == get_neighbours_with_weight(sv_ent)[nb_idx][1]
           edge_weight == get_neighbours_with_weight(sv_ent)[nb_idx][2]
           total_dist == sv_dist + edge_weight
       IN  IF negative_weight(edge_weight)
           THEN /\ Return(Err("NegativeWeight"))
                /\ UNCHANGED <<minimal_dist, search_queue, nb_idx>>
           ELSE /\ NextNeighbour
                /\ UNCHANGED result
                /\ IF too_far(total_dist)
                   THEN UNCHANGED <<minimal_dist, search_queue>>
                   ELSE IF neighbour_ent \in DOMAIN minimal_dist
                   THEN IF visited_closer(total_dist, minimal_dist[neighbour_ent])
                        THEN UNCHANGED <<minimal_dist, search_queue>>
                        ELSE /\ minimal_dist' =
                                  [minimal_dist EXCEPT ![neighbour_ent] = total_dist]
                             /\ search_queue' =
                                  pq_change_priority(search_queue, neighbour_ent, total_dist)
                   ELSE /\ minimal_dist' = insert(minimal_dist, neighbour_ent, total_dist)
                        /\ search_queue' = pq_push(search_queue, neighbour_ent, total_dist)
    /\ UNCHANGED Resource
    /\ CountEntered

----------------------------------------------------------------------------
(* dijkstra_search with a policy for edges of unknown weight, as main.rs calls
   it: `dijkstra_search(start, end, &query, NoneValueResponse::Impassable)`.
   An edge weight is an Option; the policy resolves a None. *)

Impassable == <<"Impassable">>
Infinity == <<"Infinity">>
Value(x) == <<"Value", x>>

(* A PathWeight orders by its infinite_crossings first and by its weight
   second: one crossing weighs more than every path without one. *)
infinite_crossing == (NumEnts + 1) * (MaxWeight + 1)

(* The weight an edge contributes, None when the edge is skipped *)
resolve_weight(edge_weight) ==
    IF edge_weight # None THEN edge_weight
    ELSE IF none_response = Impassable THEN None
    ELSE IF none_response = Infinity THEN Some(infinite_crossing)
    ELSE Some(none_response[2])

dijkstra_policy_call ==
    /\ pc = "call"
    /\ alg = "dijkstra_search_policy"
    /\ IF start_ent \notin store \/ end_ent \notin store
       THEN Return(Err("InvalidEntity")) /\ UNCHANGED Work
       ELSE /\ path_previous' = insert(<<>>, start_ent, None)
            /\ minimal_dist' = insert(<<>>, start_ent, 0)
            /\ search_queue' = pq_push(<<>>, start_ent, 0)
            /\ pc' = "loop"
            /\ UNCHANGED <<Input, first_result, result, visited, sv_ent, sv_dist,
                           nb_idx, expanded>>
    /\ UNCHANGED Aux
    /\ UNCHANGED Resource
    /\ CountEntered

dijkstra_policy_pop ==
    /\ pc = "loop"
    /\ alg = "dijkstra_search_policy"
    /\ IF DOMAIN search_queue = {}
       THEN Return(Err("NoPath")) /\ UNCHANGED Work
       ELSE \E e \in pq_pop_candidates(search_queue) :
            /\ search_queue' = pq_remove(search_queue, e)
            /\ sv_ent' = e
            /\ sv_dist' = search_queue[e]
            /\ UNCHANGED <<path_previous, minimal_dist, visited>>
            /\ IF e = end_ent
               THEN /\ Return(unwrap_path(determine_path(path_previous, e)))
                    /\ UNCHANGED <<nb_idx, expanded>>
               ELSE IF e \notin store
               THEN UNCHANGED <<Input, first_result, result, pc, nb_idx, expanded>>
               ELSE /\ EnterNeighbours(e)
                    /\ UNCHANGED <<Input, first_result, result>>
    /\ UNCHANGED Aux
    /\ UNCHANGED Resource
    /\ CountEntered

(* One turn of the neighbour loop: a skipped edge changes nothing, a negative
   finite weight aborts, a strictly smaller candidate replaces the record. *)
dijkstra_policy_relax ==
    /\ pc = "expand"
    /\ alg = "dijkstra_search_policy"
    /\ LET neighbour_ent == nbrs[sv_ent][nb_idx][1]
           resolved == resolve_weight(nbrs[sv_ent][nb_idx][2])
           total_dist == sv_dist + resolved[1]
       IN  IF resolved = None
           THEN /\ NextNeighbour
                /\ UNCHANGED <<Input, first_result, result, visited, sv_ent, sv_dist,
                               expanded, path_previous, minimal_dist, search_queue>>
           ELSE IF resolved[1] < 0
           THEN Return(Err("NegativeWeight")) /\ UNCHANGED Work
           ELSE /\ UNCHANGED <<Input, first_result, result, visited, sv_ent,
                               sv_dist, expanded>>
                /\ NextNeighbour
                /\ IF neighbour_ent \in DOMAIN minimal_dist
                   THEN IF total_dist >= minimal_dist[neighbour_ent]
                        THEN UNCHANGED <<path_previous, minimal_dist, search_queue>>
                        ELSE /\ path_previous' =
                                  [path_previous EXCEPT ![neighbour_ent] = Some(sv_ent)]
                             /\ minimal_dist' =
                                  [minimal_dist EXCEPT ![neighbour_ent] = total_dist]
                             /\ search_queue' =
                                  pq_change_priority(search_queue, neighbour_ent, total_dist)
                   ELSE /\ path_previous' = insert(path_previous, neighbour_ent, Some(sv_ent))
                        /\ minimal_dist' = insert(minimal_dist, neighbour_ent, total_dist)
                        /\ search_queue' = pq_push(search_queue, neighbour_ent, total_dist)
    /\ UNCHANGED Aux
    /\ UNCHANGED Resource
    /\ CountEntered

----------------------------------------------------------------------------
(* types.rs: the Graph resource and the GraphVertex components.  A component is
   one of 1..NumComponents and was made by new_with_id with its own number as
   self_id.  The heuristic of a vertex is stored and never read: it is left
   out.  Indices are usize and start at 0. *)

Components == 1..NumComponents
self_id(vertex) == vertex

(* enum VertexIndex *)
Unassigned == None
Assigned(index) == Some(index)
is_assigned(vertex) == vertex_index[vertex] # Unassigned
assign_index(vertex, index) == [vertex_index EXCEPT ![vertex] = Assigned(index)]

(* Variant of swap_remove that removes the last element, as Vec::pop does *)
remove_last(vec, pos) == SubSeq(vec, 1, Len(vec) - 1)

(* Vec::swap_remove: the last element takes the place of the removed one *)
swap_remove(vec, pos) ==
    [i \in 1..(Len(vec) - 1) |-> IF i = pos THEN vec[Len(vec)] ELSE vec[i]]

(* `iter().position(|x| *x == index)`: the first position, None when absent *)
position(vec, index) ==
    IF \E i \in 1..Len(vec) : vec[i] = index
    THEN Some(CHOOSE i \in 1..Len(vec) :
                 /\ vec[i] = index
                 /\ \A j \in 1..(i - 1) : vec[j] # index)
    ELSE None

(* `self.missing_indices.pop().unwrap_or_else(|| self.vertices.len())` with the
   number of free indices in the place of the number of vertices *)
next_index_from_free ==
    IF missing_indices # <<>> THEN missing_indices[Len(missing_indices)]
    ELSE Len(free_indices)

(* `self.missing_indices.pop().unwrap_or_else(|| self.vertices.len())` *)
next_index ==
    IF missing_indices # <<>> THEN missing_indices[Len(missing_indices)]
    ELSE Cardinality(DOMAIN vertices)

(* What pop() leaves of missing_indices *)
missing_popped ==
    IF missing_indices # <<>> THEN SubSeq(missing_indices, 1, Len(missing_indices) - 1)
    ELSE missing_indices

(* The searches' state, which no Graph or StandardGraphVertex call touches *)
Search == <<store, nbrs, start_ent, end_ent, goal, heur, max_steps, max_ends,
            max_distance, none_response, pc, Work, Aux, entered, first_result>>

add_vertex ==
    \E vertex \in Components :
        /\ Cardinality(DOMAIN vertices) < MaxVertices
        /\ alg' = "add_vertex"
        /\ args' = <<vertex>>
        /\ IF is_assigned(vertex)
           THEN /\ result' = Err("VertexAlreadyAssigned")
                /\ UNCHANGED <<vertices, missing_indices, free_indices, vertex_index>>
           ELSE LET index == next_index
                IN  /\ missing_indices' = missing_popped
                    /\ vertex_index' = assign_index(vertex, index)
                    /\ vertices' = insert(vertices, index, Some(self_id(vertex)))
                    /\ result' = Ok(index)
                    /\ UNCHANGED free_indices
        /\ UNCHANGED <<Search, neighbours>>

add_unattached_vertex ==
    /\ Cardinality(DOMAIN vertices) < MaxVertices
    /\ alg' = "add_unattached_vertex"
    /\ args' = <<>>
    /\ LET index == next_index
       IN  /\ missing_indices' = missing_popped
           /\ free_indices' = Append(free_indices, index)
           /\ vertices' = insert(vertices, index, None)
           /\ result' = Ok(index)
    /\ UNCHANGED <<Search, neighbours, vertex_index>>

attach_vertex ==
    \E vertex \in Components, index \in 0..MaxVertices :
        /\ alg' = "attach_vertex"
        /\ args' = <<vertex, index>>
        /\ IF is_assigned(vertex)
           THEN /\ result' = Err("VertexAlreadyAssigned")
                /\ UNCHANGED <<vertices, free_indices, vertex_index>>
           ELSE IF position(free_indices, index) = None
           THEN /\ result' = Err("VertexNotFree")
                /\ UNCHANGED <<vertices, free_indices, vertex_index>>
           ELSE /\ free_indices' = swap_remove(free_indices, position(free_indices, index)[1])
                /\ vertex_index' = assign_index(vertex, index)
                /\ vertices' = [vertices EXCEPT ![index] = Some(self_id(vertex))]
                /\ result' = Ok(<<>>)
        /\ UNCHANGED <<Search, neighbours, missing_indices>>

----------------------------------------------------------------------------
(* graph_vertex/mod.rs: StandardGraphVertex, one vertex under edit.  A call's
   bool is returned as Ok(bool). *)

(* Variant of edge_exists that looks at the first neighbour only *)
edge_exists_first(vec, other_vertex) ==
    Len(vec) >= 1 /\ vec[1][1] = other_vertex

(* `.iter().any(|(ent, _)| *ent == other_vertex)` *)
edge_exists(vec, other_vertex) ==
    \E i \in 1..Len(vec) : vec[i][1] = other_vertex

(* `.iter().position(|(ent,_)| *ent == other_vertex)` *)
edge_position(vec, other_vertex) ==
    IF \E i \in 1..Len(vec) : vec[i][1] = other_vertex
    THEN Some(CHOOSE i \in 1..Len(vec) :
                 /\ vec[i][1] = other_vertex
                 /\ \A j \in 1..(i - 1) : vec[j][1] # other_vertex)
    ELSE None

(* What no StandardGraphVertex method touches *)
OffVertex == <<Search, vertices, missing_indices, free_indices, vertex_index>>

add_edge ==
    \E other_vertex \in Entities, weight \in 0..MaxWeight :
        /\ Len(neighbours) < MaxNeighbours
        /\ alg' = "add_edge"
        /\ args' = <<other_vertex, weight>>
        /\ LET exists == edge_exists(neighbours, other_vertex)
           IN  /\ neighbours' = IF ~exists
                                THEN Append(neighbours, <<other_vertex, weight>>)
                                ELSE neighbours
               /\ result' = Ok(exists)
        /\ UNCHANGED OffVertex

remove_edge ==
    \E other_vertex \in Entities :
        /\ alg' = "remove_edge"
        /\ args' = <<other_vertex>>
        /\ LET pos == edge_position(neighbours, other_vertex)
           IN  /\ neighbours' = IF pos # None
                                THEN swap_remove(neighbours, pos[1])
                                ELSE neighbours
               /\ result' = Ok(pos # None)
        /\ UNCHANGED OffVertex

change_weight_of ==
    \E other_vertex \in Entities, new_weight \in 0..MaxWeight :
        /\ alg' = "change_weight_of"
        /\ args' = <<other_vertex, new_weight>>
        /\ LET pos == edge_position(neighbours, other_vertex)
           IN  /\ neighbours' = IF pos # None
                                THEN [neighbours EXCEPT ![pos[1]][2] = new_weight]
                                ELSE neighbours
               /\ result' = Ok(pos # None)
        /\ UNCHANGED OffVertex

----------------------------------------------------------------------------
(* Initial states *)

ZeroHeuristic(n) == [v \in 1..n |-> 0]

(* The functions of these calls take no bound *)
NoBounds == max_steps = None /\ max_ends = None /\ max_distance = 0

(* A call of bfs or dfs: the edge weights are not read *)
InitUnweighted ==
    /\ alg \in {"bfs", "dfs"}
    /\ store \in Stores(NumEnts)
    /\ \E E \in EdgeSets(NumEnts, store, MaxEdges) :
           nbrs = MakeNbrs(NumEnts, E, [e \in E |-> 1])
    /\ start_ent = 1
    /\ end_ent \in Entities
    /\ goal = {}
    /\ heur = ZeroHeuristic(NumEnts)
    /\ NoBounds
    /\ first_result = NoResult
    /\ none_response = None
    /\ Fresh

(* A call of dijkstra_search (a_star_search after it) or dijkstra_computed_end *)
InitWeighted ==
    /\ alg \in {"dijkstra_search", "dijkstra_computed_end"}
    /\ store \in Stores(NumEnts)
    /\ \E E \in EdgeSets(NumEnts, store, MaxWeightedEdges) :
       \E wt \in [E -> Weights] :
           nbrs = MakeNbrs(NumEnts, E, wt)
    /\ start_ent = 1
    /\ end_ent \in Entities
    /\ goal = IF alg = "dijkstra_computed_end" THEN {end_ent} ELSE {}
    /\ heur = ZeroHeuristic(NumEnts)
    /\ NoBounds
    /\ first_result = NoResult
    /\ none_response = None
    /\ Fresh

(* A call of determine_path on any map from entities to Option<Entity> *)
InitPath ==
    /\ alg = "determine_path"
    /\ store = Entities
    /\ nbrs = [v \in Entities |-> <<>>]
    /\ start_ent = 1
    /\ end_ent \in Entities
    /\ goal = {}
    /\ heur = ZeroHeuristic(NumEnts)
    /\ NoBounds
    /\ first_result = NoResult
    /\ none_response = None
    /\ pc = "call"
    /\ search_queue = <<>>
    /\ \E keys \in SUBSET Entities :
           path_previous \in [keys -> {None} \cup {Some(e) : e \in Entities}]
    /\ minimal_dist = <<>>
    /\ visited = <<>>
    /\ sv_ent = start_ent
    /\ sv_dist = 0
    /\ nb_idx = 1
    /\ expanded = {}
    /\ sv_node = None
    /\ to_view = <<>>
    /\ seen = {}
    /\ valid = <<>>
    /\ current_step = 0
    /\ at_current_step = 0
    /\ found_paths = <<>>
    /\ entered = [e \in DOMAIN nbrs |-> 0]
    /\ NoResource
    /\ result = NoResult

(* A call of a_star_search with a consistent heuristic, on a store without
   cycles in which a path leads from start to end *)
InitAStar ==
    /\ alg = "a_star_search"
    /\ store = 1..AStarNumEnts
    /\ start_ent = 1
    /\ end_ent = AStarNumEnts
    /\ \E E \in ForwardEdgeSets(AStarNumEnts, AStarMaxEdges) :
       \E wt \in [E -> 0..AStarMaxWeight] :
           /\ end_ent \in ReachFrom(E, {start_ent})
           /\ nbrs = MakeNbrs(AStarNumEnts, E, wt)
           /\ heur \in {h \in [1..AStarNumEnts -> 0..MaxHeuristic] :
                            Consistent(h, E, wt, end_ent)}
    /\ goal = {}
    /\ NoBounds
    /\ first_result = NoResult
    /\ none_response = None
    /\ Fresh

Init == InitUnweighted \/ InitWeighted

NextUnweighted ==
    \/ bfs_call
    \/ bfs_pop
    \/ bfs_visit
    \/ dfs_call
    \/ dfs_step

NextWeighted ==
    \/ dijkstra_search_call
    \/ dijkstra_search_pop
    \/ dijkstra_computed_end_call
    \/ dijkstra_computed_end_pop
    \/ dijkstra_relax
    \/ second_call
    \/ a_star_search_call
    \/ a_star_search_pop
    \/ a_star_search_relax

Next == NextUnweighted \/ NextWeighted

(* Every search, on every store of the bounds *)
Spec == Init /\ [][Next]_vars

(* bfs and dfs alone *)
SpecUnweighted == InitUnweighted /\ [][NextUnweighted]_vars

(* a_star_search with a consistent heuristic *)
NextAStar ==
    \/ a_star_search_call
    \/ a_star_search_pop
    \/ a_star_search_relax

SpecAStar == InitAStar /\ [][NextAStar]_vars

(* determine_path alone *)
SpecPath == InitPath /\ [][determine_path_call]_vars

(* The values of an Option<usize> argument up to n *)
OptionUpTo(n) == {None} \cup {Some(k) : k \in 0..n}

(* A call of bfs_computed_end or of a multi-end search, with any set of
   entities whose data satisfies end_determiner *)
InitComputedEnd ==
    /\ alg \in {"bfs_computed_end", "bfs_multiple_end", "dfs_multiple_end"}
    /\ store \in Stores(NumEnts)
    /\ \E E \in EdgeSets(NumEnts, store, MaxComputedEndEdges) :
           nbrs = MakeNbrs(NumEnts, E, [e \in E |-> 1])
    /\ start_ent = 1
    /\ end_ent = 1
    /\ goal \in SUBSET Entities
    /\ heur = ZeroHeuristic(NumEnts)
    /\ max_ends \in IF alg = "bfs_computed_end" THEN {None} ELSE OptionUpTo(MaxEnds)
    /\ max_steps \in IF alg = "bfs_multiple_end" THEN OptionUpTo(MaxSteps) ELSE {None}
    /\ max_distance = 0
    /\ first_result = NoResult
    /\ none_response = None
    /\ Fresh

NextComputedEnd ==
    \/ bfs_computed_end_call
    \/ bfs_computed_end_pop
    \/ bfs_computed_end_visit
    \/ bfs_multiple_end_call
    \/ bfs_multiple_end_pop
    \/ bfs_multiple_end_visit
    \/ dfs_multiple_end_call
    \/ dfs_multiple_end_step

(* bfs_computed_end and the multi-end searches *)
SpecComputedEnd == InitComputedEnd /\ [][NextComputedEnd]_vars

(* A call of within_steps or at_step *)
InitSteps ==
    /\ alg \in {"within_steps", "at_step"}
    /\ store \in Stores(NumEnts)
    /\ \E E \in EdgeSets(NumEnts, store, MaxEdges) :
           nbrs = MakeNbrs(NumEnts, E, [e \in E |-> 1])
    /\ max_steps \in 0..MaxSteps
    /\ max_ends = None
    /\ max_distance = 0

(* A call of within_distance *)
InitDistance ==
    /\ alg = "within_distance"
    /\ store \in Stores(NumEnts)
    /\ \E E \in EdgeSets(NumEnts, store, MaxWeightedEdges) :
       \E wt \in [E -> Weights] :
           nbrs = MakeNbrs(NumEnts, E, wt)
    /\ max_steps = None
    /\ max_ends = None
    /\ max_distance \in (0 - 1)..MaxDistance

InitNeighbourhood ==
    /\ InitSteps \/ InitDistance
    /\ start_ent = 1
    /\ end_ent = 1
    /\ goal = {}
    /\ heur = ZeroHeuristic(NumEnts)
    /\ first_result = NoResult
    /\ none_response = None
    /\ Fresh

NextNeighbourhood ==
    \/ within_steps_call
    \/ within_steps_pop
    \/ within_steps_visit
    \/ within_steps_layer
    \/ at_step_collect
    \/ within_distance_call
    \/ within_distance_pop
    \/ within_distance_relax

(* The neighbourhood queries *)
SpecNeighbourhood == InitNeighbourhood /\ [][NextNeighbourhood]_vars

(* A call of dijkstra_search with a policy, on a store whose edges may have an
   unknown weight *)
InitPolicy ==
    /\ alg = "dijkstra_search_policy"
    /\ store \in Stores(NumEnts)
    /\ \E E \in EdgeSets(NumEnts, store, MaxWeightedEdges) :
       \E wt \in [E -> {None} \cup {Some(w) : w \in Weights}] :
           nbrs = MakeNbrs(NumEnts, E, wt)
    /\ start_ent = 1
    /\ end_ent \in Entities
    /\ goal = {}
    /\ heur = ZeroHeuristic(NumEnts)
    /\ NoBounds
    /\ first_result = NoResult
    /\ none_response \in {Impassable, Infinity} \cup {Value(x) : x \in 0..MaxWeight}
    /\ Fresh

NextPolicy ==
    \/ dijkstra_policy_call
    \/ dijkstra_policy_pop
    \/ dijkstra_policy_relax

(* dijkstra_search with a policy for edges of unknown weight *)
SpecPolicy == InitPolicy /\ [][NextPolicy]_vars

(* The searches' state while the Graph or a StandardGraphVertex is edited: no
   search is called *)
NoSearch ==
    /\ store = {}
    /\ nbrs = [v \in Entities |-> <<>>]
    /\ start_ent = 1
    /\ end_ent = 1
    /\ goal = {}
    /\ heur = ZeroHeuristic(NumEnts)
    /\ NoBounds
    /\ first_result = NoResult
    /\ none_response = None
    /\ NoLocals

(* Graph::new() and NumComponents components made by new_with_id *)
InitGraph ==
    /\ alg = "new"
    /\ NoSearch
    /\ vertices = <<>>
    /\ missing_indices = <<>>
    /\ free_indices = <<>>
    /\ vertex_index = [vertex \in Components |-> Unassigned]
    /\ neighbours = <<>>
    /\ args = <<>>

NextGraph ==
    \/ add_vertex
    \/ add_unattached_vertex
    \/ attach_vertex

(* Any sequence of add_vertex, add_unattached_vertex and attach_vertex calls *)
SpecGraph == InitGraph /\ [][NextGraph]_vars

(* A call of dijkstra_search on a store without negative weight *)
InitDijkstra ==
    /\ alg = "dijkstra_search"
    /\ store \in Stores(NumEnts)
    /\ \E E \in EdgeSets(NumEnts, store, MaxDijkstraEdges) :
       \E wt \in [E -> 0..MaxDijkstraWeight] :
           nbrs = MakeNbrs(NumEnts, E, wt)
    /\ start_ent = 1
    /\ end_ent \in Entities
    /\ goal = {}
    /\ heur = ZeroHeuristic(NumEnts)
    /\ NoBounds
    /\ first_result = NoResult
    /\ none_response = None
    /\ Fresh

NextDijkstra ==
    \/ dijkstra_search_call
    \/ dijkstra_search_pop
    \/ dijkstra_relax

(* dijkstra_search alone, on stores with more edges *)
SpecDijkstra == InitDijkstra /\ [][NextDijkstra]_vars

(* A call of any search or neighbourhood query with no optional bound given, on
   a store that may have cycles and self-loops *)
InitTerminates ==
    /\ alg \in {"bfs", "dfs", "dijkstra_search", "dijkstra_computed_end",
                "bfs_computed_end", "bfs_multiple_end", "dfs_multiple_end",
                "within_steps", "at_step", "within_distance"}
    /\ store \in Stores(NumEnts)
    /\ \E E \in EdgeSets(NumEnts, store, MaxLoopEdges) :
       \E wt \in [E -> {0, MaxWeight}] :
           /\ alg \notin {"dijkstra_search", "dijkstra_computed_end", "within_distance"}
                  => \A e \in E : wt[e] = MaxWeight
           /\ nbrs = MakeNbrs(NumEnts, E, wt)
    /\ start_ent = 1
    /\ end_ent \in IF alg \in {"bfs", "dfs", "dijkstra_search"} THEN Entities ELSE {1}
    /\ goal \in IF alg \in {"dijkstra_computed_end", "bfs_computed_end",
                             "bfs_multiple_end", "dfs_multiple_end"}
                THEN {{}, Entities} \cup {{e} : e \in Entities} ELSE {{}}
    /\ heur = ZeroHeuristic(NumEnts)
    /\ max_ends = None
    /\ max_steps = IF alg \in {"within_steps", "at_step"} THEN MaxSteps ELSE None
    /\ max_distance = IF alg = "within_distance" THEN MaxDistance ELSE 0
    /\ first_result = NoResult
    /\ none_response = None
    /\ Fresh

NextTerminates == Next \/ NextComputedEnd \/ NextNeighbourhood

(* Every function, run to its return: a call that can take a step takes it *)
SpecTerminates ==
    InitTerminates /\ [][NextTerminates]_vars /\ WF_vars(NextTerminates)

(* StandardGraphVertex::new() *)
InitVertex ==
    /\ alg = "new"
    /\ NoSearch
    /\ NoResource

NextVertex ==
    \/ add_edge
    \/ remove_edge
    \/ change_weight_of

(* Any sequence of add_edge, remove_edge and change_weight_of calls on one
   StandardGraphVertex *)
SpecVertex == InitVertex /\ [][NextVertex]_vars

----------------------------------------------------------------------------
(* What the store's graph is, for stating the properties: its edges, its
   paths, the least number of edges and the least weight of a path. *)

Vertices == DOMAIN nbrs

EdgeWeights(u, v) == {nbrs[u][i][2] : i \in {j \in 1..Len(nbrs[u]) : nbrs[u][j][1] = v}}
HasEdge(u, v) == EdgeWeights(u, v) # {}
LeastEdge(u, v) == CHOOSE w \in EdgeWeights(u, v) : \A x \in EdgeWeights(u, v) : w <= x

NoNegativeWeight == \A v \in Vertices : \A i \in 1..Len(nbrs[v]) : nbrs[v][i][2] >= 0
HasNegativeEdge(v) == \E i \in 1..Len(nbrs[v]) : nbrs[v][i][2] < 0

(* p, read from its first element to its last, follows edges *)
IsForwardPath(p) == Len(p) >= 1 /\ \A i \in 1..(Len(p) - 1) : HasEdge(p[i], p[i + 1])
NoRepeat(p) == \A i, j \in 1..Len(p) : i # j => p[i] # p[j]

(* The paths from a to b that pass no vertex twice (a least path is one of them
   when no weight is negative) *)
SimplePaths(a, b) ==
    {p \in UNION {[1..k -> Vertices] : k \in 1..Cardinality(Vertices)} :
        p[1] = a /\ p[Len(p)] = b /\ IsForwardPath(p) /\ NoRepeat(p)}

Reachable(a, b) == SimplePaths(a, b) # {}

RECURSIVE SumEdges(_, _)
SumEdges(p, i) == IF i >= Len(p) THEN 0 ELSE LeastEdge(p[i], p[i + 1]) + SumEdges(p, i + 1)
WeightOf(p) == SumEdges(p, 1)

MinSteps(a, b) ==
    CHOOSE k \in {Len(p) - 1 : p \in SimplePaths(a, b)} :
        \A p \in SimplePaths(a, b) : k <= Len(p) - 1
MinWeight(a, b) ==
    CHOOSE w \in {WeightOf(p) : p \in SimplePaths(a, b)} :
        \A p \in SimplePaths(a, b) : w <= WeightOf(p)

(* A returned path runs from the destination to the source *)
Reversed(p) == [i \in 1..Len(p) |-> p[Len(p) + 1 - i]]

Done(a) == pc = "done" /\ alg = a
BothPresent == start_ent \in store /\ end_ent \in store

----------------------------------------------------------------------------
(* C1: on a store without negative edge weight, with start and end in the store
   and a path from start to end, dijkstra_search returns Ok with a path from
   start to end of the least weight.  *)
C1_DijkstraLeastWeight ==
    (Done("dijkstra_search") /\ NoNegativeWeight /\ BothPresent
        /\ Reachable(start_ent, end_ent))
    => /\ result.kind = "Ok"
       /\ Reversed(result.path) \in SimplePaths(start_ent, end_ent)
       /\ WeightOf(Reversed(result.path)) = MinWeight(start_ent, end_ent)

(* C2: with start and end in the store and a path from start to end, bfs
   returns Ok with a path from start to end that has the least number of edges
   of all such paths. *)
C2_BfsLeastEdges ==
    (Done("bfs") /\ BothPresent /\ Reachable(start_ent, end_ent))
    => /\ result.kind = "Ok"
       /\ Reversed(result.path) \in SimplePaths(start_ent, end_ent)
       /\ Len(result.path) - 1 = MinSteps(start_ent, end_ent)

(* bfs has returned a path from start to a different end although the store
   has a longer path from start to end as well *)
C2_Witness ==
    /\ Done("bfs") /\ BothPresent /\ result.kind = "Ok"
    /\ Len(result.path) >= 2
    /\ \E p \in SimplePaths(start_ent, end_ent) : Len(p) > Len(result.path)

(* C3: a call of dijkstra_search, dijkstra_computed_end or a_star_search that
   has entered the neighbour loop of a vertex with an outgoing edge of weight
   below zero returns NegativeWeight, never Ok or NoPath. *)
C3_NegativeWeightReported ==
    (pc = "done"
        /\ alg \in {"dijkstra_search", "dijkstra_computed_end", "a_star_search"}
        /\ \E v \in expanded : HasNegativeEdge(v))
    => result.kind = "NegativeWeight"

(* The heuristic of the call is consistent with respect to end_ent *)
ConsistentHeuristic ==
    /\ heur[end_ent] = 0
    /\ \A u \in Vertices : \A i \in 1..Len(nbrs[u]) :
           heur[u] <= nbrs[u][i][2] + heur[nbrs[u][i][1]]

(* C4: on a store without negative edge weight, with a consistent heuristic,
   start and end in the store and a path from start to end, a_star_search
   returns a path from start to end of the least weight. *)
C4_AStarLeastWeight ==
    (Done("a_star_search") /\ NoNegativeWeight /\ ConsistentHeuristic /\ BothPresent
        /\ Reachable(start_ent, end_ent))
    => /\ result.kind = "Ok"
       /\ Reversed(result.path) \in SimplePaths(start_ent, end_ent)
       /\ WeightOf(Reversed(result.path)) = MinWeight(start_ent, end_ent)

(* Two results are the same outcome: both NoPath, or both a path, of the same
   summed weight *)
SameOutcome(r1, r2) ==
    \/ r1.kind = "NoPath" /\ r2.kind = "NoPath"
    \/ /\ r1.kind = "Ok" /\ r2.kind = "Ok"
       /\ IsForwardPath(Reversed(r1.path)) /\ IsForwardPath(Reversed(r2.path))
       /\ WeightOf(Reversed(r1.path)) = WeightOf(Reversed(r2.path))

(* C5: on a store without negative edge weight, with start and end in the
   store, dijkstra_search and a_star_search with the heuristic that is always
   zero have the same outcome. *)
C5_ZeroHeuristicAsDijkstra ==
    (Done("a_star_search") /\ first_result # NoResult /\ NoNegativeWeight
        /\ BothPresent /\ \A v \in Vertices : heur[v] = 0)
    => SameOutcome(first_result, result)

(* C6: bfs, dfs, dijkstra_search and a_star_search return InvalidEntity whenever
   start or end is not in the store. *)
C6_AbsentEndpointInvalidEntity ==
    (pc = "done" /\ alg \in {"bfs", "dfs", "dijkstra_search", "a_star_search"}
        /\ ~BothPresent)
    => result.kind = "InvalidEntity"

(* C7: on a store without negative edge weight no search ends in InvalidPath:
   determine_path on the predecessor map the search built succeeds. *)
C7_NeverInvalidPath ==
    (pc = "done"
        /\ alg \in {"bfs", "dfs", "dijkstra_search", "dijkstra_computed_end",
                    "a_star_search"}
        /\ NoNegativeWeight)
    => result.kind # "InvalidPath"

(* The chains of keys of path_previous that start at end_ent, follow the
   recorded predecessors and end at a key whose predecessor is None *)
PredecessorChains ==
    LET keys == DOMAIN path_previous
    IN {p \in UNION {[1..k -> keys] : k \in 1..Cardinality(keys)} :
           /\ p[1] = end_ent
           /\ \A i \in 1..(Len(p) - 1) : path_previous[p[i]] = Some(p[i + 1])
           /\ path_previous[p[Len(p)]] = None}

(* C8: determine_path(path_previous, end_ent) follows at most as many links as
   the map has keys.  It returns Ok exactly when the predecessors from end_ent
   lead to a key without predecessor, and then the path is that chain, end_ent
   first; it returns InvalidPathError when end_ent is not a key, when a
   predecessor is not a key and when the predecessors loop. *)
C8_DeterminePath ==
    Done("determine_path")
    => /\ Len(result.path) - 1 <= Cardinality(DOMAIN path_previous)
       /\ PredecessorChains # {}
            => result.kind = "Ok" /\ result.path \in PredecessorChains
       /\ PredecessorChains = {} => result.kind = "InvalidPath"

(* determine_path has returned a chain that uses every key of a map of three
   keys *)
C8_Witness ==
    /\ Done("determine_path") /\ result.kind = "Ok"
    /\ Cardinality(DOMAIN path_previous) = NumEnts
    /\ Len(result.path) = Cardinality(DOMAIN path_previous)

(* C9: on a store without negative edge weight, a path returned by bfs, dfs,
   dijkstra_search or a_star_search has end first and start last, each entity
   after the first has the one before it among its neighbours, and no entity
   is in it twice. *)
C9_PathIsReverseRealSimple ==
    (pc = "done" /\ alg \in {"bfs", "dfs", "dijkstra_search", "a_star_search"}
        /\ NoNegativeWeight /\ result.kind = "Ok")
    => /\ Len(result.path) >= 1
       /\ result.path[1] = end_ent
       /\ result.path[Len(result.path)] = start_ent
       /\ \A i \in 1..(Len(result.path) - 1) :
              HasEdge(result.path[i + 1], result.path[i])
       /\ NoRepeat(result.path)

(* dfs has returned a path of two edges on a store where an edge leads back
   to the start *)
C9_Witness ==
    /\ Done("dfs") /\ NoNegativeWeight /\ result.kind = "Ok"
    /\ Len(result.path) = 3
    /\ \E v \in Vertices : HasEdge(v, start_ent)

(* C10: with start and end different and both in the store, dfs returns Ok
   when there is a path from start to end and NoPath when there is none. *)
C10_DfsFindsReachable ==
    (Done("dfs") /\ BothPresent /\ start_ent # end_ent)
    => /\ Reachable(start_ent, end_ent) => result.kind = "Ok"
       /\ ~Reachable(start_ent, end_ent) => result.kind = "NoPath"
       /\ result.kind = "Ok"
            => Reversed(result.path) \in SimplePaths(start_ent, end_ent)

(* dfs has returned a path that is longer than the shortest one *)
C10_Witness ==
    /\ Done("dfs") /\ BothPresent /\ result.kind = "Ok"
    /\ Len(result.path) - 1 > MinSteps(start_ent, end_ent)

(* The entities of the store whose data satisfies end_determiner and that a
   path leads to from start *)
GoalReachable == {v \in goal \cap store : Reachable(start_ent, v)}

(* C11: bfs_computed_end with start in the store returns the path of start
   alone when start satisfies the predicate; otherwise, when a vertex reachable
   from start satisfies it on its own data, a path from start to such a vertex
   of the least number of edges; and NoPath only when no reachable vertex
   satisfies it. *)
C11_BfsComputedEnd ==
    (Done("bfs_computed_end") /\ start_ent \in store)
    => /\ start_ent \in goal => result = Ok(<<start_ent>>)
       /\ GoalReachable # {}
            => /\ result.kind = "Ok"
               /\ result.path[1] \in GoalReachable
               /\ Reversed(result.path) \in SimplePaths(start_ent, result.path[1])
               /\ \A v \in GoalReachable : Len(result.path) - 1 <= MinSteps(start_ent, v)
       /\ GoalReachable = {} => result.kind = "NoPath"

MultiEnd == {"bfs_multiple_end", "dfs_multiple_end"}

(* C18: a multi-end search never returns NoPath.  With start in the store it
   returns Ok with a list, the empty list when no vertex of the store satisfies
   the predicate; with start absent it returns InvalidEntity. *)
C18_MultiEndNeverNoPath ==
    (pc = "done" /\ alg \in MultiEnd)
    => /\ result.kind # "NoPath"
       /\ start_ent \in store => result.kind = "Ok"
       /\ start_ent \in store /\ goal \cap store = {} => result.path = <<>>
       /\ start_ent \notin store => result.kind = "InvalidEntity"

(* A multi-end search on a start with neighbours has returned the empty list *)
C18_Witness ==
    /\ pc = "done" /\ alg \in MultiEnd /\ start_ent \in store
    /\ Len(nbrs[start_ent]) >= 1
    /\ result = Ok(<<>>)

(* C19: a multi-end search given max_ends = Some(m) returns at most m paths. *)
C19_AtMostMaxEnds ==
    (pc = "done" /\ alg \in MultiEnd /\ max_ends # None /\ result.kind = "Ok")
    => Len(result.path) <= max_ends[1]

(* The vertices the multi-end breadth-first search is to return: those of the
   store that satisfy the predicate and lie within max_steps edges of start *)
WithinStepsGoal ==
    {v \in GoalReachable : max_steps = None \/ MinSteps(start_ent, v) <= max_steps[1]}

(* C20: with max_ends unset the multi-end breadth-first search returns one
   path for every vertex of the store that satisfies the predicate and lies
   within max_steps edges of start, a path from start of the least number of
   edges, and no other path. *)
C20_BfsMultiEndExact ==
    (Done("bfs_multiple_end") /\ start_ent \in store /\ max_ends = None)
    => /\ result.kind = "Ok"
       /\ {result.path[i][1] : i \in 1..Len(result.path)} = WithinStepsGoal
       /\ Len(result.path) = Cardinality(WithinStepsGoal)
       /\ \A i \in 1..Len(result.path) :
              /\ Reversed(result.path[i]) \in SimplePaths(start_ent, result.path[i][1])
              /\ Len(result.path[i]) - 1 = MinSteps(start_ent, result.path[i][1])

(* C12: on a store without negative edge weight, dijkstra_computed_end with
   start in the store returns the path of start alone when start satisfies the
   predicate; when a reachable vertex of the store satisfies it, a path from
   start to such a vertex whose weight is the least distance from start to any
   of them; and NoPath only when none does. *)
C12_DijkstraComputedEndLeast ==
    (Done("dijkstra_computed_end") /\ NoNegativeWeight /\ start_ent \in store)
    => /\ start_ent \in goal => result = Ok(<<start_ent>>)
       /\ GoalReachable # {}
            => /\ result.kind = "Ok"
               /\ result.path[1] \in GoalReachable
               /\ Reversed(result.path) \in SimplePaths(start_ent, result.path[1])
               /\ \A v \in GoalReachable :
                      WeightOf(Reversed(result.path)) <= MinWeight(start_ent, v)
       /\ GoalReachable = {} => result.kind = "NoPath"

(* The elements of a returned list *)
Elements(l) == {l[i] : i \in 1..Len(l)}

(* The vertices of the store that a path leads to from start, and those at
   most, or exactly, k edges from start *)
StoreReachable == {v \in store : Reachable(start_ent, v)}
WithinSteps(k) == {v \in StoreReachable : MinSteps(start_ent, v) <= k}
AtStep(k) == {v \in StoreReachable : MinSteps(start_ent, v) = k}

(* C13: within_steps(start, 0), start in the store, returns the list of the
   one pair (start, 0). *)
C13_WithinZeroSteps ==
    (Done("within_steps") /\ start_ent \in store /\ max_steps = 0)
    => result = Ok(<<<<start_ent, 0>>>>)

(* C14: within_steps with start in the store and max_steps >= 1 returns one
   pair (v, k) for each vertex v of the store that is at most max_steps edges
   from start, k being its least number of edges from start, and nothing
   else. *)
C14_WithinSteps ==
    (Done("within_steps") /\ start_ent \in store /\ max_steps >= 1)
    => /\ result.kind = "Ok"
       /\ Elements(result.path)
            = {<<v, MinSteps(start_ent, v)>> : v \in WithinSteps(max_steps)}
       /\ Len(result.path) = Cardinality(WithinSteps(max_steps))

(* within_steps with max_steps = 1 has returned a neighbour of start and left
   out a vertex two edges from start *)
C14_Witness ==
    /\ Done("within_steps") /\ start_ent \in store /\ max_steps = 1
    /\ Len(result.path) >= 2
    /\ AtStep(2) # {}

(* C15: at_step(start, k), start in the store, returns the vertices of the
   store whose least number of edges from start is k, each once. *)
C15_AtStep ==
    (Done("at_step") /\ start_ent \in store)
    => /\ result.kind = "Ok"
       /\ Elements(result.path) = AtStep(max_steps)
       /\ Len(result.path) = Cardinality(AtStep(max_steps))

(* at_step(start, 0) has returned on a start that has a neighbour in the store
   other than itself *)
C15_Witness ==
    /\ Done("at_step") /\ start_ent \in store /\ max_steps = 0
    /\ AtStep(1) # {}
    /\ result = Ok(<<start_ent>>)

(* C16: within_distance on a store without negative edge weight, with start
   in the store and max_distance >= 0, returns one pair (v, d) for each vertex
   v whose least distance from start is at most max_distance, d being that
   distance, and nothing else. *)
C16_WithinDistance ==
    (Done("within_distance") /\ NoNegativeWeight /\ start_ent \in store
        /\ max_distance >= 0)
    => /\ result.kind = "Ok"
       /\ Elements(result.path)
            = {<<v, MinWeight(start_ent, v)>> :
                 v \in {u \in StoreReachable : MinWeight(start_ent, u) <= max_distance}}
       /\ Len(result.path) = Cardinality(Elements(result.path))

(* C17: an entity that an edge leads to but that is not in the store is in no
   result of within_steps or within_distance, and the edge to it causes no
   error. *)
C17_AbsentNeverReturned ==
    (pc = "done" /\ alg \in {"within_steps", "within_distance"}
        /\ start_ent \in store /\ NoNegativeWeight)
    => /\ result.kind = "Ok"
       /\ \A i \in 1..Len(result.path) : result.path[i][1] \in store

----------------------------------------------------------------------------
(* The store whose only edge leads from start_ent to end_ent and has an unknown
   weight *)
SingleUnknownEdge ==
    /\ start_ent # end_ent
    /\ {start_ent, end_ent} \subseteq store
    /\ nbrs = [v \in Entities |->
                 IF v = start_ent THEN << <<end_ent, None>> >> ELSE <<>>]

(* C21: dijkstra_search applies the policy to an edge of unknown weight: on the
   store whose only edge start -> end has an unknown weight, Impassable makes it
   return NoPath and Value(0) makes it return the path [end, start] at the
   cumulative distance 0. *)
C21_PolicyOnUnknownWeight ==
    (pc = "done" /\ alg = "dijkstra_search_policy" /\ SingleUnknownEdge) =>
        /\ none_response = Impassable => result = Err("NoPath")
        /\ none_response = Value(0) =>
              /\ result = Ok(<<end_ent, start_ent>>)
              /\ sv_ent = end_ent
              /\ sv_dist = 0

C21_Witness ==
    /\ pc = "done"
    /\ alg = "dijkstra_search_policy"
    /\ SingleUnknownEdge
    /\ none_response = Value(0)
    /\ result = Ok(<<end_ent, start_ent>>)

C21_WitnessImpassable ==
    /\ pc = "done"
    /\ alg = "dijkstra_search_policy"
    /\ SingleUnknownEdge
    /\ none_response = Impassable
    /\ expanded = {start_ent}

----------------------------------------------------------------------------
(* The Graph and the components, as a call may change them *)
GraphState == <<vertices, missing_indices, free_indices, vertex_index>>

(* C22: add_vertex on a GraphVertex that has an index returns
   VertexAlreadyAssigned and changes neither the graph nor the vertex; on an
   unassigned one it returns an index that no vertex of the graph holds,
   assigns the GraphVertex to it and stores the vertex's entity under it,
   whatever add_vertex, add_unattached_vertex and attach_vertex calls came
   before. *)
C22_AddVertex ==
    [][alg' = "add_vertex" =>
        LET vertex == args'[1]
            index == result'.path
        IN  IF is_assigned(vertex)
            THEN /\ result' = Err("VertexAlreadyAssigned")
                 /\ UNCHANGED GraphState
            ELSE /\ result'.kind = "Ok"
                 /\ index \notin DOMAIN vertices
                 /\ vertex_index' = [vertex_index EXCEPT ![vertex] = Assigned(index)]
                 /\ DOMAIN vertices' = DOMAIN vertices \cup {index}
                 /\ vertices'[index] = Some(self_id(vertex))
                 /\ \A i \in DOMAIN vertices : vertices'[i] = vertices[i]]_vars

(* add_vertex returned the index 2 after an add_unattached_vertex and another
   call that added a vertex *)
C22_Witness ==
    /\ alg = "add_vertex"
    /\ result = Ok(2)
    /\ Len(free_indices) = 1
    /\ \E vertex \in Components : vertex_index[vertex] = Assigned(2)

(* add_vertex refused a GraphVertex that attach_vertex had assigned *)
C22_WitnessAssigned ==
    /\ alg = "add_vertex"
    /\ result = Err("VertexAlreadyAssigned")
    /\ free_indices = <<>>
    /\ \E i \in DOMAIN vertices : vertices[i] # None

----------------------------------------------------------------------------
(* C23: in dijkstra_search and dijkstra_computed_end a candidate distance that
   is not strictly smaller than the recorded distance of an already recorded
   neighbour changes nothing: the neighbour keeps its predecessor, its distance
   and its queue priority. *)
C23_EqualCandidateIgnored ==
    [][(/\ alg \in {"dijkstra_search", "dijkstra_computed_end"}
        /\ pc = "expand") =>
        LET neighbour_ent == get_neighbours_with_weight(sv_ent)[nb_idx][1]
            edge_weight == get_neighbours_with_weight(sv_ent)[nb_idx][2]
            total_dist == sv_dist + edge_weight
        IN  (/\ edge_weight >= 0
             /\ neighbour_ent \in DOMAIN minimal_dist
             /\ total_dist >= minimal_dist[neighbour_ent]) =>
                UNCHANGED <<path_previous, minimal_dist, search_queue>>]_vars

----------------------------------------------------------------------------
(* C24: in a_star_search the heuristic stored for a discovered vertex v, and
   added to v's distance to make its queue priority, is the heuristic of v's
   own data and the end vertex's data, in every state from v's first discovery
   on (it is evaluated then and never recomputed by a relaxation). *)
C24_HeuristicOfOwnData ==
    (alg = "a_star_search" /\ pc # "call") =>
        \A v \in DOMAIN minimal_dist \ {start_ent} :
            /\ minimal_dist[v][2] = heur[v]
            /\ v \in DOMAIN search_queue =>
                  search_queue[v] = minimal_dist[v][1] + heur[v]

----------------------------------------------------------------------------
(* Following the recorded predecessors from v reaches start_ent within hops
   links *)
RECURSIVE LeadsToStart(_, _)
LeadsToStart(v, hops) ==
    IF v = start_ent THEN TRUE
    ELSE IF hops = 0 \/ v \notin DOMAIN path_previous \/ path_previous[v] = None
    THEN FALSE
    ELSE LeadsToStart(path_previous[v][1], hops - 1)

(* C25: in every state of dijkstra_search, dijkstra_computed_end and
   a_star_search on a store without negative weight, the start vertex has no
   predecessor, every other recorded vertex has a recorded vertex as its
   predecessor, and the predecessors from any recorded vertex lead to the start
   within as many links as the map has keys. *)
C25_PredecessorMapWellFormed ==
    (/\ alg \in {"dijkstra_search", "dijkstra_computed_end", "a_star_search"}
     /\ NoNegativeWeight
     /\ start_ent \in DOMAIN path_previous) =>
        /\ path_previous[start_ent] = None
        /\ \A v \in DOMAIN path_previous \ {start_ent} :
              /\ path_previous[v] # None
              /\ path_previous[v][1] \in DOMAIN path_previous
              /\ LeadsToStart(v, Cardinality(DOMAIN path_previous))

----------------------------------------------------------------------------
(* The least of a non-empty set of integers *)
Least(S) == CHOOSE x \in S : \A y \in S : x <= y

(* One round of relaxation of every edge out of the entities of d, a map from
   entities to the least weight found of a path from the start *)
RelaxAll(d) ==
    LET edges == UNION {{<<u, i>> : i \in 1..Len(nbrs[u])} : u \in DOMAIN d}
        over(v) == {d[e[1]] + nbrs[e[1]][e[2]][2] : e \in {x \in edges : nbrs[x[1]][x[2]][1] = v}}
        reached == DOMAIN d \cup {nbrs[e[1]][e[2]][1] : e \in edges}
    IN  [v \in reached |-> Least(over(v) \cup (IF v \in DOMAIN d THEN {d[v]} ELSE {}))]

(* The least weight of a path from start_ent to each entity a path leads to:
   the fixed point of the relaxation *)
RECURSIVE LeastWeights(_)
LeastWeights(d) == IF RelaxAll(d) = d THEN d ELSE LeastWeights(RelaxAll(d))

(* The vertices dijkstra_search has popped: recorded and no longer queued *)
Popped == DOMAIN minimal_dist \ DOMAIN search_queue

(* C26: in dijkstra_search on a store without negative weight, a vertex is
   popped at its least path weight from the start, no vertex is popped at a
   smaller distance than the one popped before it, and the recorded distance of
   a popped vertex never changes. *)
C26_PoppedDistanceFinal ==
    [][(/\ alg = "dijkstra_search"
        /\ alg' = "dijkstra_search"
        /\ NoNegativeWeight) =>
        /\ (pc = "loop" /\ DOMAIN search_queue # {}) =>
              /\ sv_ent' \in DOMAIN search_queue
              /\ sv_dist' = search_queue[sv_ent']
              /\ sv_dist' = LeastWeights(insert(<<>>, start_ent, 0))[sv_ent']
              /\ sv_dist' >= sv_dist
        /\ \A v \in Popped :
              /\ v \in DOMAIN minimal_dist'
              /\ minimal_dist'[v] = minimal_dist[v]
              /\ v \notin DOMAIN search_queue']_vars

(* A vertex was recorded over the edge from the start, then reached over
   another vertex at a smaller distance, and popped at that distance *)
C26_Witness ==
    /\ alg = "dijkstra_search"
    /\ \E v \in Popped \ {start_ent} :
          /\ HasEdge(start_ent, v)
          /\ minimal_dist[v] < LeastEdge(start_ent, v)
          /\ path_previous[v] # Some(start_ent)

----------------------------------------------------------------------------
(* No entity was put into the queue more than once *)
EnteredOnce == \A e \in DOMAIN nbrs : entered[e] <= 1

(* A turn of the loop of dfs or dfs_multiple_end leaves the frames below the top
   one alone and either drops the top frame or keeps it with its cursor moved
   past the one neighbour it examined *)
CursorAdvances ==
    (alg \in {"dfs", "dfs_multiple_end"} /\ pc = "loop" /\ search_queue # <<>>) =>
        LET top == Len(search_queue)
            node == search_queue[top]
        IN  /\ Len(search_queue') >= top - 1
            /\ \A i \in 1..(top - 1) : search_queue'[i] = search_queue[i]
            /\ Len(search_queue') >= top =>
                  /\ node.neighbours_visited < Len(get_neighbours(node.ent))
                  /\ search_queue'[top] =
                        [node EXCEPT !.neighbours_visited = node.neighbours_visited + 1]

(* C27: every search and neighbourhood call returns on every store, with cycles
   and self-loops and no bound given; no entity enters the queue or the stack a
   second time (so none that was popped is put back), and a frame of the dfs
   stack examines each of its neighbours at most once. *)
C27_Terminates ==
    /\ []EnteredOnce
    /\ [][CursorAdvances]_vars
    /\ <>[](pc = "done")

(* dfs returned NoPath on a store with a cycle through the start, having met a
   vertex again that had its frame *)
C27_Witness ==
    /\ alg = "dfs"
    /\ pc = "done"
    /\ result = Err("NoPath")
    /\ \E v \in Entities \ {start_ent} :
          /\ HasEdge(start_ent, v)
          /\ HasEdge(v, start_ent)
          /\ entered[v] = 1
          /\ entered[start_ent] = 1

----------------------------------------------------------------------------
(* The indices of the vertices of the Graph that have no entity *)
Unattached == {i \in DOMAIN vertices : vertices[i] = None}

(* C28: after any add_vertex, add_unattached_vertex and attach_vertex calls on
   a new Graph, free_indices holds each index of a vertex without entity once
   and no other index, and no index is assigned to two GraphVertex components;
   an attach_vertex that succeeds was given an index of free_indices and takes
   it out of free_indices, and one that fails changes neither the graph nor the
   GraphVertex. *)
C28_FreeIndices ==
    /\ [](/\ {free_indices[i] : i \in 1..Len(free_indices)} = Unattached
          /\ \A i, j \in 1..Len(free_indices) :
                i # j => free_indices[i] # free_indices[j]
          /\ \A v, w \in Components :
                (v # w /\ is_assigned(v)) => vertex_index[v] # vertex_index[w])
    /\ [][alg' = "attach_vertex" =>
           LET vertex == args'[1]
               index == args'[2]
           IN  IF result'.kind = "Ok"
               THEN /\ \E i \in 1..Len(free_indices) : free_indices[i] = index
                    /\ \A i \in 1..Len(free_indices') : free_indices'[i] # index
                    /\ Len(free_indices') = Len(free_indices) - 1
                    /\ ~is_assigned(vertex)
                    /\ vertex_index' = [vertex_index EXCEPT ![vertex] = Assigned(index)]
                    /\ vertices' = [vertices EXCEPT ![index] = Some(self_id(vertex))]
               ELSE /\ result'.kind \in {"VertexAlreadyAssigned", "VertexNotFree"}
                    /\ UNCHANGED GraphState]_vars

(* attach_vertex attached a component to the first of two free indices *)
C28_Witness ==
    /\ alg = "attach_vertex"
    /\ result = Ok(<<>>)
    /\ Len(free_indices) = 1
    /\ Cardinality(DOMAIN vertices) = 2
    /\ args[2] = 0

(* attach_vertex refused an index that is not free *)
C28_WitnessNotFree ==
    /\ alg = "attach_vertex"
    /\ result = Err("VertexNotFree")
    /\ vertices # <<>>

----------------------------------------------------------------------------
(* C29: every pair (v, d) that within_distance returns has d <= max_distance,
   for every max_distance, the negative ones too. *)
C29_WithinMaxDistance ==
    (pc = "done" /\ alg = "within_distance" /\ result.kind = "Ok") =>
        \A i \in 1..Len(result.path) : result.path[i][2] <= max_distance

----------------------------------------------------------------------------
(* The targets of the edges of the StandardGraphVertex *)
Targets == {neighbours[i][1] : i \in 1..Len(neighbours)}

(* C30: after any add_edge, remove_edge and change_weight_of calls on a new
   StandardGraphVertex no target is in the neighbour list twice; add_edge
   returns true exactly when the target was a neighbour, and then the list is
   as it was, and false exactly when it appended the edge; remove_edge and
   change_weight_of return true exactly when the target was a neighbour. *)
C30_NoDuplicateTarget ==
    /\ [](\A i, j \in 1..Len(neighbours) :
              i # j => neighbours[i][1] # neighbours[j][1])
    /\ [][/\ alg' = "add_edge" =>
                /\ result' = Ok(args'[1] \in Targets)
                /\ args'[1] \in Targets => neighbours' = neighbours
                /\ args'[1] \notin Targets =>
                      neighbours' = Append(neighbours, <<args'[1], args'[2]>>)
          /\ alg' = "remove_edge" =>
                /\ result' = Ok(args'[1] \in Targets)
                /\ {neighbours'[i] : i \in 1..Len(neighbours')} =
                      {e \in {neighbours[i] : i \in 1..Len(neighbours)} : e[1] # args'[1]}
          /\ alg' = "change_weight_of" =>
                /\ result' = Ok(args'[1] \in Targets)
                /\ \A i \in 1..Len(neighbours) :
                      neighbours'[i] = IF neighbours[i][1] = args'[1]
                                       THEN <<args'[1], args'[2]>>
                                       ELSE neighbours[i]]_vars

(* add_edge was given a target that the list of two or more edges holds with
   another weight, and returned true *)
C30_Witness ==
    /\ alg = "add_edge"
    /\ result = Ok(TRUE)
    /\ Len(neighbours) >= 2
    /\ \E i \in 1..Len(neighbours) :
          neighbours[i][1] = args[1] /\ neighbours[i][2] # args[2]

====
